---- MODULE Spec2Model ----
(***************************************************************************)
(* Model of instantly_mcp: the ASGI API-key middleware (http_app.py) and   *)
(* the API client's credential resolution (client.py).                     *)
(*                                                                         *)
(* Python strings are sequences of one-character strings, so that the      *)
(* regular expression, str.lower, slicing and concatenation are computed   *)
(* character by character.  Python's None is the value None below, which   *)
(* no string equals.                                                       *)
(***************************************************************************)
EXTENDS Integers, Sequences, FiniteSets, TLC

\* ------------------------------------------------------------------ strings

None == <<"None">>
Empty == << >>

\* Python truthiness of an Optional[str]
Truthy(x) == x # None /\ x # Empty

\* Python `a or b` on Optional[str] operands
Or(a, b) == IF Truthy(a) THEN a ELSE b

SetMax(S) == CHOOSE x \in S : \A y \in S : y <= x

UpperCase ==
  {"A","B","C","D","E","F","G","H","I","J","K","L","M",
   "N","O","P","Q","R","S","T","U","V","W","X","Y","Z"}

LowerOf ==
  [c \in UpperCase |->
     CASE c = "A" -> "a" [] c = "B" -> "b" [] c = "C" -> "c" [] c = "D" -> "d"
       [] c = "E" -> "e" [] c = "F" -> "f" [] c = "G" -> "g" [] c = "H" -> "h"
       [] c = "I" -> "i" [] c = "J" -> "j" [] c = "K" -> "k" [] c = "L" -> "l"
       [] c = "M" -> "m" [] c = "N" -> "n" [] c = "O" -> "o" [] c = "P" -> "p"
       [] c = "Q" -> "q" [] c = "R" -> "r" [] c = "S" -> "s" [] c = "T" -> "t"
       [] c = "U" -> "u" [] c = "V" -> "v" [] c = "W" -> "w" [] c = "X" -> "x"
       [] c = "Y" -> "y" [] c = "Z" -> "z"]

\* str.lower()
Lower(s) == [i \in 1..Len(s) |-> IF s[i] \in UpperCase THEN LowerOf[s[i]] ELSE s[i]]

\* str.startswith(p)
StartsWith(s, p) == Len(s) >= Len(p) /\ SubSeq(s, 1, Len(p)) = p

\* s[n:]
SliceFrom(s, n) == SubSeq(s, n + 1, Len(s))

\* `k in s` for strings: k occurs in s as a substring
Contains(s, k) ==
  \E i \in 1..(Len(s) + 1) : i + Len(k) - 1 <= Len(s) /\ SubSeq(s, i, i + Len(k) - 1) = k

\* string literals of the source
McpMount == <<"/","m","c","p">>
McpSlash == <<"/","m","c","p","/">>
Sse == <<"s","s","e">>
Messages == <<"m","e","s","s","a","g","e","s">>
Health == <<"/","h","e","a","l","t","h">>
Root == <<"/">>
BearerLower == <<"b","e","a","r","e","r"," ">>
BearerPrefix == <<"B","e","a","r","e","r"," ">>
XApiKeyName == <<"x","-","i","n","s","t","a","n","t","l","y","-","a","p","i","-","k","e","y">>
AuthorizationName == <<"a","u","t","h","o","r","i","z","a","t","i","o","n">>

\* --------------------------------------------------- http_app.py: headers

\* headers_dict = {k.decode().lower(): v.decode() for k, v in headers}:
\* a later entry of the list overwrites an earlier one of the same lowered name
RECURSIVE headers_dict(_)
headers_dict(headers) ==
  IF headers = << >> THEN << >>
  ELSE LET n == Len(headers)
           init == headers_dict(SubSeq(headers, 1, n - 1))
           name == Lower(headers[n][1])
           kept == SelectSeq(init, LAMBDA e : e[1] # name)
       IN Append(kept, <<name, headers[n][2]>>)

\* dict.get(name, default)
DictGet(d, name, default) ==
  IF \E i \in 1..Len(d) : d[i][1] = name
  THEN d[CHOOSE i \in 1..Len(d) : d[i][1] = name][2]
  ELSE default

\* A mutant of extract_api_key_from_headers: Authorization is looked at first
extract_api_key_from_headers_AuthFirst(headers) ==
  LET d == headers_dict(headers)
      auth_header == DictGet(d, AuthorizationName, Empty)
      api_key == DictGet(d, XApiKeyName, None)
  IN IF Truthy(auth_header)
     THEN IF StartsWith(Lower(auth_header), BearerLower)
          THEN SliceFrom(auth_header, 7)
          ELSE auth_header
     ELSE IF Truthy(api_key) THEN api_key ELSE None

extract_api_key_from_headers(headers) ==
  LET d == headers_dict(headers)
      api_key == DictGet(d, XApiKeyName, None)
      auth_header == DictGet(d, AuthorizationName, Empty)
  IN IF Truthy(api_key) THEN api_key
     ELSE IF Truthy(auth_header)
          THEN IF StartsWith(Lower(auth_header), BearerLower)
               THEN SliceFrom(auth_header, 7)
               ELSE auth_header
          ELSE None

\* ------------------------------------------------ http_app.py: path regex

\* re.match(r"^/mcp/([^/]+)(/.*)?$", path).  Group 1 ends at index i, group 2
\* (when it takes part) at index j.  `[^/]` matches any character but "/",
\* `.` any character but a newline, `$` the end of the string or the place
\* just before a newline that ends the string.  Both quantifiers are greedy:
\* the longest group 1 that lets the rest match, then group 2 if it can take
\* part, as long as it can be.
ReMatch(path) ==
  LET n == Len(path)
      AtEnd(p) == p = n + 1 \/ (p = n /\ path[n] = "\n")
      G1Ends == {i \in 6..n : \A x \in 6..i : path[x] # "/"}
      G2Ends(i) == {j \in (i + 1)..n :
                      /\ path[i + 1] = "/"
                      /\ \A x \in (i + 2)..j : path[x] # "\n"
                      /\ AtEnd(j + 1)}
      Ends == {i \in G1Ends : G2Ends(i) # {} \/ AtEnd(i + 1)}
  IN IF StartsWith(path, McpSlash) /\ Ends # {}
     THEN LET i == SetMax(Ends)
          IN [matched |-> TRUE,
              g1 |-> SubSeq(path, 6, i),
              g2 |-> IF G2Ends(i) # {} THEN SubSeq(path, i + 1, SetMax(G2Ends(i))) ELSE None]
     ELSE [matched |-> FALSE, g1 |-> None, g2 |-> None]

\* ------------------------------------------------------------ inputs

\* the keys the checks tell apart by where they come from
k1 == <<"k","1">>
k2 == <<"k","2">>
ka == <<"k","a">>
kc == <<"k","c">>
ks == <<"k","s">>
ke == <<"k","e">>

\* the inbound requests in flight at once (asyncio tasks of the ASGI server)
Tasks == {"A", "B"}
NoTask == "none"

\* client.request calls one downstream handler makes
MaxCalls == 1
\* pieces appended to a path prefix, entries of a header list
MaxTail == 3
MaxHeaders == 2
MaxRequests == 2

SeqsUpTo(S, n) == UNION {[1..m -> S] : m \in 0..n}

RECURSIVE Flatten(_)
Flatten(ss) == IF ss = << >> THEN << >> ELSE Head(ss) \o Flatten(Tail(ss))

\* raw_path as the ASGI server gives it: the path before percent-decoding
RawPathOf(path) ==
  Flatten([i \in 1..Len(path) |-> IF path[i] = "\n" THEN <<"%","0","A">> ELSE <<path[i]>>])

MkScope(type, path, headers) ==
  [type |-> type, path |-> path, raw_path |-> RawPathOf(path), headers |-> headers]

\* the scopes of the two-request specification
SmallScopes ==
  { MkScope("http", McpSlash \o k1, << >>),
    MkScope("http", McpSlash \o k2, << <<XApiKeyName, k1>> >>),
    MkScope("websocket", McpMount, << <<AuthorizationName, BearerPrefix \o k2>> >>),
    MkScope("http", McpMount, << >>),
    MkScope("lifespan", Empty, << >>) }

\* the paths of the one-request specification: a prefix and up to MaxTail pieces
PathPrefixes ==
  { Empty, Root, Health, McpMount, McpSlash, McpSlash \o k1,
    McpSlash \o Sse, McpSlash \o Messages }
PathPieces == { <<"/">>, k1, <<"\n">>, Sse, <<"x">> }
RichPaths == { p \o Flatten(t) : p \in PathPrefixes, t \in SeqsUpTo(PathPieces, MaxTail) }

HeaderEntries ==
  { <<XApiKeyName, k2>>,
    <<XApiKeyName, Empty>>,
    <<<<"X","-","I","n","s","t","a","n","t","l","y","-","A","p","i","-","K","e","y">>, k2>>,
    <<AuthorizationName, k1>>,
    <<AuthorizationName, BearerPrefix \o k1>>,
    <<<<"A","u","t","h","o","r","i","z","a","t","i","o","n">>, <<"b","E","A","R","E","R"," ">> \o k1>>,
    <<AuthorizationName, <<"B","e","a","r","e","r">> \o k1>>,
    <<<<"a","c","c","e","p","t">>, <<"*">>>> }
RichHeaders == SeqsUpTo(HeaderEntries, MaxHeaders)

PathScopes == { MkScope("http", p, << >>) : p \in RichPaths }
BothScopes ==
  { MkScope("http", p, << <<XApiKeyName, k2>>, <<AuthorizationName, k2>> >>) :
      p \in { q \o Flatten(t) : q \in PathPrefixes, t \in SeqsUpTo(PathPieces, 1) } }
HeaderScopes ==
  { MkScope(ty, p, h) : ty \in {"http", "websocket", "lifespan"},
                        p \in {McpMount, McpSlash \o Sse}, h \in RichHeaders }
\* scopes of a kind the middleware does not handle, with a key in the path
\* and in a header
OtherScopes ==
  { MkScope(ty, McpSlash \o k1 \o tail, << <<XApiKeyName, k2>> >>) :
      ty \in {"lifespan", "other"}, tail \in {Empty, <<"/","x">>} }
RichScopes == { s : s \in PathScopes \cup BothScopes \cup HeaderScopes \cup OtherScopes }

\* ------------------------------------------------------------- state

VARIABLES
  environ,      \* os.environ.get("INSTANTLY_API_KEY")
  _api_key,   \* InstantlyClient._api_key
  configured,   \* the key last given to the constructor or to set_api_key
  request_api_key,  \* the ContextVar: its value in each task's context
  running,      \* the task the event loop is running, or NoTask
  pc,           \* where each task is
  inScope,      \* the scope the server called the middleware with
  scope,        \* middleware: scope, as handed downstream
  match,        \* middleware: match
  api_key,      \* middleware: api_key
  token,        \* middleware: token
  outcome,      \* how the downstream handler's call ended
  ncalls,       \* client.request calls made by the handler
  call,         \* the handler's current client.request call
  req,          \* InstantlyClient.request: each task's call, with its locals
  rate_limit,   \* InstantlyClient.rate_limit
  now,          \* the clock datetime.now() reads
  routed,       \* router: where each task's request was dispatched, and its response
  tool          \* the tool function a task runs, with its locals

vars == <<environ, _api_key, configured, request_api_key, running, pc, inScope, scope,
          match, api_key, token, outcome, ncalls, call, req, rate_limit, now,
          routed, tool>>

clientVars == <<environ, _api_key, configured>>
mwVars == <<inScope, scope, match, api_key, token>>
detailVars == <<req, rate_limit, now>>
appVars == <<routed, tool>>

\* ---------------------------------------- http_app.py: the context slot

\* a context in which request_api_key was never set (Token.MISSING)
Missing == <<"MISSING">>

\* ContextVar.get() with default=None, on the value a context holds
ContextVarGet(c) == IF c = Missing THEN None ELSE c

\* A mutant of ContextVarSet: one cell for the whole process
ContextVarSet_Global(c, t, v) == [u \in DOMAIN c |-> v]

\* A mutant of ContextVarSet: nothing is stored
ContextVarSet_Noop(c, t, v) == c

\* ContextVar.set(v), run by task t: only the context of t changes
ContextVarSet(c, t, v) == [c EXCEPT ![t] = v]

\* get_request_api_key(), run by task t
get_request_api_key(t) == ContextVarGet(request_api_key[t])

\* A mutant of Handled: every kind of scope is handled
Handled_Any(s) == TRUE

Handled(s) == s.type \in {"http", "websocket"}

\* A mutant of ReservedNames: the messages subpath is forgotten
ReservedNames_SseOnly == {Sse}

\* A mutant of ReservedNames: no subpath is reserved
ReservedNames_None == {}

\* ("sse", "messages")
ReservedNames == {Sse, Messages}

\* A mutant of HeaderFallback: a header key replaces the key of the path
HeaderFallback_HeadersWin(key, headers) ==
  IF Truthy(extract_api_key_from_headers(headers))
  THEN extract_api_key_from_headers(headers)
  ELSE key

\* if not api_key: api_key = extract_api_key_from_headers(headers)
HeaderFallback(key, headers) ==
  IF ~Truthy(key) THEN extract_api_key_from_headers(headers) ELSE key

\* A mutant of AfterApp: the reset follows the call instead of sitting in finally
AfterApp_NoFinally(how) == IF how = "returned" THEN "mw_finally" ELSE "done"

\* try: await app(...) finally: reset -- every way out of the call runs the reset
AfterApp(how) == "mw_finally"

\* ------------------------------------------------- client.py: credentials

\* InstantlyClient.__post_init__
__post_init__(arg, env) == IF ~Truthy(arg) THEN env ELSE arg

\* A mutant of ResolveKey: the configured key is preferred to the request's
ResolveKey_InstanceFirst(arg, ctxkey, inst) == Or(Or(arg, inst), ctxkey)

\* use_api_key = api_key or _get_request_api_key() or self._api_key
ResolveKey(arg, ctxkey, inst) == Or(Or(arg, ctxkey), inst)

\* A mutant of KeyMissing: only None counts as no key
KeyMissing_NoneOnly(use) == use = None

\* if not use_api_key
KeyMissing(use) == ~Truthy(use)

\* the message of the ValueError, line by line
MissingCredentialMessage ==
  << "Instantly API key is required. Provide via:",
     "  - URL path: /mcp/YOUR_API_KEY",
     "  - Header: Authorization: YOUR_API_KEY",
     "  - Header: x-instantly-api-key: YOUR_API_KEY",
     "  - Environment: INSTANTLY_API_KEY" >>

\* A mutant of AuthorizationHeader: the key is sent bare
AuthorizationHeader_Bare(use) == use

\* headers = {"Authorization": f"Bearer {use_api_key}"}
AuthorizationHeader(use) == BearerPrefix \o use

NoMatch == [matched |-> FALSE, g1 |-> None, g2 |-> None]
NoScope == [type |-> "none", path |-> Empty, raw_path |-> Empty, headers |-> << >>]
NoCall ==
  [api_key |-> None, ctx_key |-> None, use_api_key |-> None,
   authorization |-> None, result |-> "none", message |-> << >>]

\* the arguments given for client.request's api_key, the constructor's _api_key
\* and set_api_key's api_key; the values of the environment variable
ArgKeys == {None, ka}
CtorKeys == {None, kc}
SetKeys == {Empty, ks}
EnvKeys == {None, Empty, ke}

\* --------------------------------------------- client.py: Python values

\* str.strip(): the whitespace taken off both ends
Whitespace == {" ", "\t", "\n", "\r"}
RECURSIVE Strip(_)
Strip(s) ==
  IF s # << >> /\ Head(s) \in Whitespace THEN Strip(Tail(s))
  ELSE IF s # << >> /\ s[Len(s)] \in Whitespace THEN Strip(SubSeq(s, 1, Len(s) - 1))
  ELSE s

DigitChars == <<"0","1","2","3","4","5","6","7","8","9">>
IsDigit(c) == \E i \in 1..10 : DigitChars[i] = c
DigitVal(c) == (CHOOSE i \in 1..10 : DigitChars[i] = c) - 1

\* str(n) of an int n >= 0
RECURSIVE IntStr(_)
IntStr(n) ==
  IF n < 10 THEN <<DigitChars[n + 1]>>
  ELSE IntStr(n \div 10) \o <<DigitChars[(n % 10) + 1]>>

\* str(x) of a float x with an integral value: 60.0 gives "60.0"
FloatStr(n) == IntStr(n) \o <<".","0">>

RECURSIVE DropZeros(_)
DropZeros(d) == IF Len(d) > 1 /\ Head(d) = "0" THEN DropZeros(Tail(d)) ELSE d

\* the digits of an int literal without its sign: single underscores may
\* stand between digits
IntLiteral(body) ==
  /\ body # << >>
  /\ \A i \in 1..Len(body) : IsDigit(body[i]) \/ body[i] = "_"
  /\ IsDigit(body[1]) /\ IsDigit(body[Len(body)])
  /\ \A i \in 1..(Len(body) - 1) : ~(body[i] = "_" /\ body[i + 1] = "_")

IntOf(negative, mag) ==
  [ok |-> TRUE, v |-> IF negative /\ mag # <<"0">> THEN <<"-">> \o mag ELSE mag]

IntOfLiteral(negative, body) ==
  IF IntLiteral(body) THEN IntOf(negative, DropZeros(SelectSeq(body, IsDigit)))
  ELSE [ok |-> FALSE, v |-> None]

IntOfStripped(t) ==
  IF t # << >> /\ Head(t) \in {"+", "-"} THEN IntOfLiteral(Head(t) = "-", Tail(t))
  ELSE IntOfLiteral(FALSE, t)

\* int(s) of a str.  A Python int has no bound: it is kept as its decimal
\* numeral, the digits without leading zeros after "-" when it is negative.
\* int accepts whitespace around, a sign, and single underscores between
\* digits; ok is FALSE when it raises ValueError.
ParseInt(s) == IntOfStripped(Strip(s))

\* a <= b for numerals of ints >= 0
RECURSIVE NumLeq(_, _)
NumLeq(a, b) ==
  IF Len(a) # Len(b) THEN Len(a) < Len(b)
  ELSE IF a = << >> THEN TRUE
  ELSE IF Head(a) # Head(b) THEN DigitVal(Head(a)) < DigitVal(Head(b))
  ELSE NumLeq(Tail(a), Tail(b))

\* the seconds since the epoch, before it (Min) and after it (Max), up to
\* which the year is in 1..9999, the C library's localtime works, and the
\* number is a time_t
MinYearSeconds == <<"6","2","1","3","5","5","1","0","4","0","0">>
MaxYearSeconds == <<"2","5","3","4","0","2","3","0","0","7","9","9">>
MinLocaltime == <<"6","7","7","6","8","0","4","0","6","0","9","7","4","0","8","0","0">>
MaxLocaltime == <<"6","7","7","6","8","0","3","6","1","9","1","6","7","6","7","9","9">>
MinTimeT == <<"9","2","2","3","3","7","2","0","3","6","8","5","4","7","7","5","8","0","8">>
MaxTimeT == <<"9","2","2","3","3","7","2","0","3","6","8","5","4","7","7","5","8","0","7">>

\* datetime.fromtimestamp(n) of an int n, on a 64-bit Linux with TZ=UTC: the
\* datetime (kept as n), ValueError when the year is not in 1..9999, OSError
\* when the C library cannot convert n, OverflowError when n is no time_t
InstantOf(negative, mag) ==
  IF NumLeq(mag, IF negative THEN MinYearSeconds ELSE MaxYearSeconds) THEN "ok"
  ELSE IF NumLeq(mag, IF negative THEN MinLocaltime ELSE MaxLocaltime) THEN "ValueError"
  ELSE IF NumLeq(mag, IF negative THEN MinTimeT ELSE MaxTimeT) THEN "OSError"
  ELSE "OverflowError"

fromtimestamp(n) == IF Head(n) = "-" THEN InstantOf(TRUE, Tail(n)) ELSE InstantOf(FALSE, n)

\* JSON values (and the Python values json.loads gives for them)
JStr(s) == [kind |-> "str", s |-> s, items |-> << >>]
JDict(items) == [kind |-> "dict", s |-> Empty, items |-> items]
JList == [kind |-> "list", s |-> Empty, items |-> << >>]
JNull == [kind |-> "null", s |-> Empty, items |-> << >>]
JTrue == [kind |-> "true", s |-> Empty, items |-> << >>]
JFalse == [kind |-> "false", s |-> Empty, items |-> << >>]
\* an int, by its decimal numeral; a list, by its elements
JInt(s) == [kind |-> "int", s |-> s, items |-> << >>]
JListOf(items) == [kind |-> "list", s |-> Empty, items |-> items]

\* ", ".join(parts)
RECURSIVE JoinComma(_)
JoinComma(parts) ==
  IF parts = << >> THEN << >>
  ELSE IF Len(parts) = 1 THEN parts[1]
  ELSE parts[1] \o <<",", " ">> \o JoinComma(Tail(parts))

\* repr(v) of a value whose dict entries are strings, None, True or []
ReprFlat(v) ==
  CASE v.kind = "str" -> <<"'">> \o v.s \o <<"'">>
    [] v.kind = "null" -> <<"N","o","n","e">>
    [] v.kind = "true" -> <<"T","r","u","e">>
    [] OTHER -> <<"[","]">>

Repr(v) ==
  IF v.kind = "dict"
  THEN <<"{">> \o JoinComma([i \in 1..Len(v.items) |->
          <<"'">> \o v.items[i][1] \o <<"'",":"," ">> \o ReprFlat(v.items[i][2])]) \o <<"}">>
  ELSE ReprFlat(v)

\* str(v): a str is itself, any other value its repr
Str(v) == IF v.kind = "str" THEN v.s ELSE Repr(v)

\* json.dumps(v), the text of a response body that json.loads turns into v
RECURSIVE Dumps(_)
Dumps(v) ==
  CASE v.kind = "str" -> <<"\"">> \o v.s \o <<"\"">>
    [] v.kind = "null" -> <<"n","u","l","l">>
    [] v.kind = "true" -> <<"t","r","u","e">>
    [] v.kind = "false" -> <<"f","a","l","s","e">>
    [] v.kind = "int" -> v.s
    [] v.kind = "dict" ->
         <<"{">> \o JoinComma([i \in 1..Len(v.items) |->
            <<"\"">> \o v.items[i][1] \o <<"\"",":"," ">> \o Dumps(v.items[i][2])]) \o <<"}">>
    [] OTHER ->
         <<"[">> \o JoinComma([i \in 1..Len(v.items) |-> Dumps(v.items[i])]) \o <<"]">>

\* an Optional[float] argument; an Optional[dict] argument
NoFloat == [some |-> FALSE, v |-> 0]
Float(n) == [some |-> TRUE, v |-> n]
NoDict == [some |-> FALSE, items |-> << >>]
Dict(items) == [some |-> TRUE, items |-> items]

\* ------------------------------------------------ client.py: the client

DEFAULT_TIMEOUT == 60
EXTENDED_TIMEOUT == 90
SEARCH_TIMEOUT == 120

LeadsPart == <<"/","l","e","a","d","s">>
ListPart == <<"l","i","s","t">>

\* A mutant of _get_timeout: the endpoint is looked at before the search flag
_get_timeout_EndpointFirst(endpoint, has_search) ==
  IF Contains(endpoint, LeadsPart) /\ Contains(endpoint, ListPart) THEN EXTENDED_TIMEOUT
  ELSE IF has_search THEN SEARCH_TIMEOUT
  ELSE DEFAULT_TIMEOUT

_get_timeout(endpoint, has_search) ==
  IF has_search THEN SEARCH_TIMEOUT
  ELSE IF Contains(endpoint, LeadsPart) /\ Contains(endpoint, ListPart) THEN EXTENDED_TIMEOUT
  ELSE DEFAULT_TIMEOUT

DictHas(d, name) == \E i \in 1..Len(d) : d[i][1] = name

SearchKey == <<"s","e","a","r","c","h">>

\* bool(v) of a JSON value
JTruthy(v) ==
  CASE v.kind = "str" -> v.s # Empty
    [] v.kind = "dict" -> v.items # << >>
    [] v.kind = "list" -> v.items # << >>
    [] v.kind = "int" -> v.s # <<"0">>
    [] v.kind = "true" -> TRUE
    [] OTHER -> FALSE

\* bool(json and json.get("search"))
HasSearch(json) ==
  /\ json.some
  /\ json.items # << >>
  /\ JTruthy(DictGet(json.items, SearchKey, JNull))

\* timeout or self._get_timeout(endpoint, has_search)
RequestTimeout(timeout, endpoint, has_search) ==
  IF timeout.some /\ timeout.v # 0 THEN timeout.v ELSE _get_timeout(endpoint, has_search)

\* the rate limit tracker
RemainingName == <<"x","-","r","a","t","e","l","i","m","i","t","-","r","e","m","a","i","n","i","n","g">>
LimitName == <<"x","-","r","a","t","e","l","i","m","i","t","-","l","i","m","i","t">>
ResetName == <<"x","-","r","a","t","e","l","i","m","i","t","-","r","e","s","e","t">>

RateLimitInfo ==
  [remaining |-> None, limit |-> None, reset_at |-> None, last_updated |-> None]

\* A mutant of AssignInt: the value is stored in a fresh tracker, which
\* replaces the shared one
AssignInt_Fresh(st, field, p) ==
  IF p.ok THEN [st EXCEPT !.rl = [RateLimitInfo EXCEPT ![field] = p.v]]
  ELSE [st EXCEPT !.exc = "ValueError"]

\* self.rate_limit.<field> = int(headers[name]), inside the try block: st is
\* the tracker and the exception raised so far, after which nothing runs
AssignInt(st, field, p) ==
  IF p.ok THEN [st EXCEPT !.rl[field] = p.v] ELSE [st EXCEPT !.exc = "ValueError"]

AssignInstant(st, p, at) ==
  IF ~p.ok THEN [st EXCEPT !.exc = "ValueError"]
  ELSE IF at = "ok" THEN [st EXCEPT !.rl.reset_at = p.v]
  ELSE [st EXCEPT !.exc = at]

InstantOfInt(p) == IF p.ok THEN fromtimestamp(p.v) ELSE "ValueError"

\* reset_at = datetime.fromtimestamp(int(headers[name]))
AssignReset(st, p) == AssignInstant(st, p, InstantOfInt(p))

IfPresent(st, headers, name, assigned) ==
  IF st.exc = "none" /\ DictHas(headers, name) THEN assigned ELSE st

UpdateRemaining(st, headers) ==
  IfPresent(st, headers, RemainingName,
            AssignInt(st, "remaining", ParseInt(DictGet(headers, RemainingName, None))))

UpdateLimit(st, headers) ==
  IfPresent(st, headers, LimitName,
            AssignInt(st, "limit", ParseInt(DictGet(headers, LimitName, None))))

UpdateReset(st, headers) ==
  IfPresent(st, headers, ResetName,
            AssignReset(st, ParseInt(DictGet(headers, ResetName, None))))

\* self.rate_limit.last_updated = datetime.now()
UpdateStamp(st, clock) ==
  IF st.exc = "none" THEN [st EXCEPT !.rl.last_updated = IntStr(clock)] ELSE st

\* except (ValueError, KeyError): pass
ExceptValueError(st) ==
  [rl |-> st.rl, raised |-> IF st.exc = "ValueError" THEN "none" ELSE st.exc]

\* _update_rate_limit: the tracker it leaves and the exception that leaves it
\* ("none" when it returns).  The assignments run in order inside one try
\* block: the first exception ends the block, what was assigned stays.
_update_rate_limit(rl, headers, clock) ==
  ExceptValueError(
    UpdateStamp(
      UpdateReset(
        UpdateLimit(
          UpdateRemaining([rl |-> rl, exc |-> "none"], headers), headers), headers), clock))

\* the JSON values a response body holds
ErrorKey == <<"e","r","r","o","r">>
MessageKey == <<"m","e","s","s","a","g","e">>
DetailKey == <<"d","e","t","a","i","l">>
CodeKey == <<"c","o","d","e">>
IdKey == <<"i","d">>
RECURSIVE Repeat(_, _)
Repeat(s, n) == IF n = 0 THEN << >> ELSE s \o Repeat(s, n - 1)
LongText == Repeat(<<"a","b","c","d","e","f","g","h","i","j">>, 20) \o <<"T","A","I","L">>

JsonValues ==
  { JDict(<< <<ErrorKey, JDict(<< <<MessageKey, JStr(<<"n","o","t"," ","f","o","u","n","d">>)>> >>)>> >>),
    JDict(<< <<ErrorKey, JDict(<< <<MessageKey, JStr(<<"e">>)>> >>)>>,
             <<MessageKey, JStr(<<"m">>)>>, <<DetailKey, JStr(<<"d">>)>> >>),
    JDict(<< <<ErrorKey, JDict(<< <<CodeKey, JStr(<<"5">>)>> >>)>>, <<MessageKey, JStr(<<"m">>)>> >>),
    JDict(<< <<ErrorKey, JStr(<<"o","o","p","s">>)>> >>),
    JDict(<< <<ErrorKey, JStr(<<"o","o","p","s">>)>>, <<DetailKey, JStr(<<"d">>)>> >>),
    JDict(<< <<ErrorKey, JNull>>, <<MessageKey, JStr(<<"m">>)>> >>),
    JDict(<< <<MessageKey, JStr(<<"m">>)>>, <<DetailKey, JStr(<<"d">>)>> >>),
    JDict(<< <<DetailKey, JStr(<<"d">>)>> >>),
    JDict(<< <<IdKey, JStr(<<"7">>)>> >>),
    JDict(<< <<IdKey, JStr(LongText)>> >>),
    JDict(<< >>),
    JList,
    JStr(<<"t","e","x","t">>) }

\* the JSON values the API answers the calls of the tools with: the state of
\* a verification, and pages of sender accounts
EmailKey == <<"e","m","a","i","l">>
StatusKey == <<"s","t","a","t","u","s">>
ItemsKey == <<"i","t","e","m","s">>
VerificationStatusKey == <<"v","e","r","i","f","i","c","a","t","i","o","n","_","s","t","a","t","u","s">>
Verification(status) ==
  JDict(<< <<EmailKey, JStr(<<"a","@","b",".","c","o">>)>>, <<VerificationStatusKey, JStr(status)>> >>)
Pending == <<"p","e","n","d","i","n","g">>
Verified == <<"v","e","r","i","f","i","e","d">>

\* an account that is active, set up and warmed up; one whose setup is pending
ReadyAccount ==
  JDict(<< <<EmailKey, JStr(<<"s","1","@","x",".","i","o">>)>>, <<StatusKey, JInt(<<"1">>)>>,
           <<<<"w","a","r","m","u","p","_","s","t","a","t","u","s">>, JInt(<<"1">>)>>, <<<<"w","a","r","m","u","p","_","s","c","o","r","e">>, JInt(<<"9","0">>)>> >>)
PendingAccount ==
  JDict(<< <<EmailKey, JStr(<<"s","2","@","x",".","i","o">>)>>, <<StatusKey, JInt(<<"1">>)>>,
           <<<<"s","e","t","u","p","_","p","e","n","d","i","n","g">>, JTrue>>, <<<<"w","a","r","m","u","p","_","s","t","a","t","u","s">>, JInt(<<"1">>)>> >>)
AccountPages ==
  { JDict(<< <<ItemsKey, JListOf(<< ReadyAccount, PendingAccount >>)>> >>),
    JDict(<< <<ItemsKey, JListOf(<< PendingAccount >>)>> >>),
    JDict(<< <<ItemsKey, JList>> >>),
    JDict(<< <<ItemsKey, JNull>> >>) }

ApiValues == { v : v \in {Verification(Pending), Verification(Verified)} \cup AccountPages }
ParsedValues == { v : v \in JsonValues \cup ApiValues }

\* response.json(): the value whose JSON text the body is, or a
\* JSONDecodeError when the body is the text of no JSON value
Loads(text) ==
  IF \E v \in ParsedValues : Dumps(v) = text
  THEN [ok |-> TRUE, v |-> CHOOSE v \in ParsedValues : Dumps(v) = text]
  ELSE [ok |-> FALSE, v |-> JNull]

TextLimit == 200
HttpPrefix == <<"H","T","T","P"," ">>
ColonSpace == <<":"," ">>

\* A mutant of the raw message: the body is not cut
RawMessage_Whole(status, text) ==
  JStr(HttpPrefix \o IntStr(status) \o ColonSpace \o text)

\* f"HTTP {response.status_code}: {response.text[:200]}"
RawMessage(status, text) ==
  JStr(HttpPrefix \o IntStr(status) \o ColonSpace
         \o SubSeq(text, 1, IF Len(text) < TextLimit THEN Len(text) ELSE TextLimit))

IsDict(data) == data.ok /\ data.v.kind = "dict"

\* error.get("message", str(error)) of a dict, str(error) of anything else
ErrorText(error) ==
  IF error.kind = "dict" THEN DictGet(error.items, MessageKey, JStr(Str(error)))
  ELSE JStr(Str(error))

\* A mutant of _parse_error: the top-level message is looked at before error
ParsedError_MessageFirst(data, raw) ==
  IF IsDict(data) /\ DictHas(data.v.items, MessageKey)
  THEN DictGet(data.v.items, MessageKey, JNull)
  ELSE IF IsDict(data) /\ DictHas(data.v.items, ErrorKey)
  THEN ErrorText(DictGet(data.v.items, ErrorKey, JNull))
  ELSE IF IsDict(data) /\ DictHas(data.v.items, DetailKey)
  THEN DictGet(data.v.items, DetailKey, JNull)
  ELSE raw

\* the message _parse_error gives for the parsed body data (not ok when
\* response.json() raised), raw being the fallback message
ParsedError(data, raw) ==
  IF IsDict(data) /\ DictHas(data.v.items, ErrorKey)
  THEN ErrorText(DictGet(data.v.items, ErrorKey, JNull))
  ELSE IF IsDict(data) /\ DictHas(data.v.items, MessageKey)
  THEN DictGet(data.v.items, MessageKey, JNull)
  ELSE IF IsDict(data) /\ DictHas(data.v.items, DetailKey)
  THEN DictGet(data.v.items, DetailKey, JNull)
  ELSE raw

_parse_error(status, text) == ParsedError(Loads(text), RawMessage(status, text))

\* ------------------------------------- client.py: a call and its outcome

NoResponse == [status |-> 0, text |-> Empty, headers |-> << >>]
Response(status, text, headers) == [status |-> status, text |-> text, headers |-> headers]

\* what the await of client.request(...) gives: a response, or an exception
\* of a class of httpx with its text
Responded(r) == [exc |-> "none", text |-> Empty, response |-> r]
Failed(cls, text) == [exc |-> cls, text |-> text, response |-> NoResponse]

\* httpx's exception classes: TimeoutException and its subclasses, and
\* RequestError, which TimeoutException derives from
TimeoutExceptions == {"ConnectTimeout", "ReadTimeout"}
RequestErrors == {"ConnectTimeout", "ReadTimeout", "ConnectError", "ReadError"}

\* the record of one call of request; result is "none" while it runs,
\* "return", or the class of the exception that left it
NoReq ==
  [pc |-> "idle", n |-> 0, via |-> "request", method |-> "GET",
   api_key |-> None, endpoint |-> Empty, json |-> NoDict, timeout |-> NoFloat,
   use_api_key |-> None, authorization |-> None,
   has_search |-> FALSE, request_timeout |-> 0, attempts |-> 0,
   response |-> NoResponse, result |-> "none", value |-> JNull,
   message |-> JNull, status |-> 0, cause |-> "none"]

\* a call of request, or of get, post, patch or delete (via), with its arguments
Call(via, method, key, endpoint, json, timeout) ==
  [via |-> via, method |-> method, api_key |-> key, endpoint |-> endpoint,
   json |-> json, timeout |-> timeout]

\* get, post, patch and delete: request with their method, the other
\* arguments passed on
MethodFor(via, method) ==
  CASE via = "get" -> "GET"
    [] via = "post" -> "POST"
    [] via = "patch" -> "PATCH"
    [] via = "delete" -> "DELETE"
    [] OTHER -> method

\* ------------------------------------------- http_app.py: the dispatcher

\* what router did with a scope: the callee that got it (target), and the
\* status and the JSON body of the response sent; status 0 when the
\* dispatcher and the health handler sent none
NoRoute == [target |-> "none", status |-> 0, body |-> JNull]
ToTransport == [target |-> "fastmcp_asgi", status |-> 0, body |-> JNull]

HealthPayload ==
  JDict(<< <<<<"s","t","a","t","u","s">>, JStr(<<"h","e","a","l","t","h","y">>)>>,
           <<<<"s","e","r","v","e","r">>, JStr(<<"i","n","s","t","a","n","t","l","y","-","m","c","p">>)>>,
           <<<<"v","e","r","s","i","o","n">>, JStr(<<"1",".","0",".","0">>)>>,
           <<<<"e","n","d","p","o","i","n","t","s">>,
             JDict(<< <<<<"m","c","p">>, JStr(McpMount)>>,
                      <<<<"m","c","p","_","w","i","t","h","_","k","e","y">>, JStr(<<"/","m","c","p","/","{","a","p","i","_","k","e","y","}">>)>> >>)>>,
           <<<<"a","u","t","h","e","n","t","i","c","a","t","i","o","n">>,
             JDict(<< <<<<"m","e","t","h","o","d","s">>,
                        JListOf(<< JStr(<<"U","R","L"," ","p","a","t","h",":"," ","/","m","c","p","/","Y","O","U","R","_","A","P","I","_","K","E","Y">>),
                                   JStr(<<"H","e","a","d","e","r",":"," ","A","u","t","h","o","r","i","z","a","t","i","o","n",":"," ","Y","O","U","R","_","A","P","I","_","K","E","Y">>),
                                   JStr(<<"H","e","a","d","e","r",":"," ","x","-","i","n","s","t","a","n","t","l","y","-","a","p","i","-","k","e","y",":"," ","Y","O","U","R","_","A","P","I","_","K","E","Y">>) >>)>>,
                      <<<<"n","o","t","e">>, JStr(<<"B","e","a","r","e","r"," ","p","r","e","f","i","x"," ","i","s"," ","o","p","t","i","o","n","a","l"," ","f","o","r"," ","A","u","t","h","o","r","i","z","a","t","i","o","n"," ","h","e","a","d","e","r">>)>> >>)>> >>)

HintKey == <<"h","i","n","t">>
NotFoundPayload ==
  JDict(<< <<ErrorKey, JStr(<<"N","o","t"," ","f","o","u","n","d">>)>>,
           <<HintKey, JStr(<<"M","C","P"," ","e","n","d","p","o","i","n","t"," ","i","s"," ","a","t"," ","/","m","c","p"," ","o","r"," ","/","m","c","p","/","{","a","p","i","_","k","e","y","}">>)>> >>)

\* health_app: nothing is sent for a scope that is not http
health_app(s) ==
  IF s.type # "http"
  THEN [target |-> "health_app", status |-> 0, body |-> JNull]
  ELSE [target |-> "health_app", status |-> 200, body |-> HealthPayload]

\* A mutant of router: only the mount point itself and what lies under it
\* is forwarded
router_MountOnly(s) ==
  IF s.type \notin {"http", "websocket"} THEN ToTransport
  ELSE IF s.path \in {Root, Health} THEN health_app(s)
  ELSE IF s.path = McpMount \/ StartsWith(s.path, McpSlash) THEN ToTransport
  ELSE [target |-> "router", status |-> 404, body |-> NotFoundPayload]

\* router(scope, receive, send)
router(s) ==
  IF s.type \notin {"http", "websocket"} THEN ToTransport
  ELSE IF s.path \in {Root, Health} THEN health_app(s)
  ELSE IF StartsWith(s.path, McpMount) THEN ToTransport
  ELSE [target |-> "router", status |-> 404, body |-> NotFoundPayload]

\* ------------------------------------------------------- tools: a tool call

\* the record of one call of a tool function: the arguments given, the input
\* model made from them (params), the calls of the client that have ended
\* (calls); result is "none" while it runs, "return", or the class of the
\* exception that left it
NoTool ==
  [name |-> "none", pc |-> "idle", given |-> << >>, params |-> << >>, calls |-> << >>,
   result |-> "none", value |-> JNull]

\* --------------------------------------------------------------- Init

InitTasks ==
  /\ request_api_key = [t \in Tasks |-> Missing]
  /\ running = NoTask
  /\ pc = [t \in Tasks |-> "idle"]
  /\ inScope = [t \in Tasks |-> NoScope]
  /\ scope = [t \in Tasks |-> NoScope]
  /\ match = [t \in Tasks |-> NoMatch]
  /\ api_key = [t \in Tasks |-> None]
  /\ token = [t \in Tasks |-> Missing]
  /\ outcome = [t \in Tasks |-> "none"]
  /\ ncalls = [t \in Tasks |-> 0]
  /\ call = [t \in Tasks |-> NoCall]
  /\ req = [t \in Tasks |-> NoReq]
  /\ rate_limit = RateLimitInfo
  /\ now = 0
  /\ routed = [t \in Tasks |-> NoRoute]
  /\ tool = NoTool

\* client = InstantlyClient(...): the state after construction
Init ==
  /\ environ \in EnvKeys
  /\ configured \in CtorKeys
  /\ _api_key = __post_init__(configured, environ)
  /\ InitTasks

\* ------------------------------------------------- client.py: set_api_key

set_api_key(v) ==
  /\ running = NoTask
  /\ _api_key' = v
  /\ configured' = v
  /\ UNCHANGED detailVars
  /\ UNCHANGED appVars
  /\ UNCHANGED <<environ, request_api_key, running, pc, inScope, scope, match, api_key,
                 token, outcome, ncalls, call>>

\* ---------------------------------------------- http_app.py: middleware

\* the server starts a task for an inbound request and calls
\* middleware(scope, receive, send) in it; the task's context has no key set
Receive(t, scopes) ==
  /\ running = NoTask
  /\ pc[t] = "idle"
  /\ \E s \in scopes :
       /\ inScope' = [inScope EXCEPT ![t] = s]
       /\ scope' = [scope EXCEPT ![t] = s]
  /\ running' = t
  /\ pc' = [pc EXCEPT ![t] = "mw_type"]
  /\ UNCHANGED detailVars
  /\ UNCHANGED appVars
  /\ UNCHANGED <<clientVars, request_api_key, match, api_key, token, outcome, ncalls, call>>

\* if scope["type"] not in ("http", "websocket"): await app(...); return
\* app is the router, which dispatches the scope it is called with
MwType(t) ==
  /\ running = t
  /\ pc[t] = "mw_type"
  /\ pc' = [pc EXCEPT ![t] = IF Handled(scope[t]) THEN "mw_match" ELSE "app"]
  /\ routed' = IF Handled(scope[t]) THEN routed ELSE [routed EXCEPT ![t] = router(scope[t])]
  /\ UNCHANGED detailVars
  /\ UNCHANGED tool
  /\ UNCHANGED <<clientVars, request_api_key, running, mwVars, outcome, ncalls, call>>

\* lines 70-81 as a rule on paths: the key taken from path (None when it
\* carries none) and the path handed on
RewriteRule(path) ==
  LET m == ReMatch(path)
      isKey == m.matched /\ m.g1 \notin ReservedNames
      suffix == Or(m.g2, Empty)
  IN [api_key |-> IF isKey THEN m.g1 ELSE None,
      path |-> IF isKey THEN McpMount \o suffix ELSE path]

\* api_key = None; match = re.match(...); the rewrite of scope["path"]
MwMatch(t) ==
  /\ running = t
  /\ pc[t] = "mw_match"
  /\ match' = [match EXCEPT ![t] = ReMatch(scope[t].path)]
  /\ api_key' = [api_key EXCEPT ![t] = RewriteRule(scope[t].path).api_key]
  /\ scope' = [scope EXCEPT ![t].path = RewriteRule(scope[t].path).path]
  /\ pc' = [pc EXCEPT ![t] = "mw_headers"]
  /\ UNCHANGED detailVars
  /\ UNCHANGED appVars
  /\ UNCHANGED <<clientVars, request_api_key, running, inScope, token, outcome, ncalls, call>>

\* if not api_key: api_key = extract_api_key_from_headers(scope.get("headers", []))
MwHeaders(t) ==
  /\ running = t
  /\ pc[t] = "mw_headers"
  /\ api_key' = [api_key EXCEPT ![t] = HeaderFallback(api_key[t], scope[t].headers)]
  /\ pc' = [pc EXCEPT ![t] = "mw_set"]
  /\ UNCHANGED detailVars
  /\ UNCHANGED appVars
  /\ UNCHANGED <<clientVars, request_api_key, running, inScope, scope, match, token, outcome,
                 ncalls, call>>

\* token = request_api_key.set(api_key), then the call of app, the router,
\* in the try block
MwSet(t) ==
  /\ running = t
  /\ pc[t] = "mw_set"
  /\ token' = [token EXCEPT ![t] = request_api_key[t]]
  /\ request_api_key' = ContextVarSet(request_api_key, t, api_key[t])
  /\ pc' = [pc EXCEPT ![t] = "app"]
  /\ routed' = [routed EXCEPT ![t] = router(scope[t])]
  /\ UNCHANGED detailVars
  /\ UNCHANGED tool
  /\ UNCHANGED <<clientVars, running, inScope, scope, match, api_key, outcome,
                 ncalls, call>>

\* where a task goes when the call of app ends: the finally block of a handled
\* request, the return of an unhandled one
Leave(t, how) ==
  /\ outcome' = [outcome EXCEPT ![t] = how]
  /\ IF Handled(inScope[t])
     THEN /\ pc' = [pc EXCEPT ![t] = AfterApp(how)]
          /\ running' = IF AfterApp(how) = "done" THEN NoTask ELSE t
     ELSE /\ pc' = [pc EXCEPT ![t] = "done"]
          /\ running' = NoTask

\* the downstream handler returns
AppReturn(t) ==
  /\ running = t
  /\ pc[t] = "app"
  /\ Leave(t, "returned")
  /\ UNCHANGED detailVars
  /\ UNCHANGED appVars
  /\ UNCHANGED <<clientVars, request_api_key, mwVars, ncalls, call>>

\* the downstream handler raises
AppRaise(t) ==
  /\ running = t
  /\ pc[t] = "app"
  /\ Leave(t, "raised")
  /\ UNCHANGED detailVars
  /\ UNCHANGED appVars
  /\ UNCHANGED <<clientVars, request_api_key, mwVars, ncalls, call>>

\* the task is cancelled while it waits for the outbound call: CancelledError
\* is raised at the await and no except clause of request catches it
Cancel(t) ==
  /\ running = NoTask
  /\ pc[t] = "http_wait"
  /\ call' = [call EXCEPT ![t].result = "CancelledError"]
  /\ Leave(t, "cancelled")
  /\ UNCHANGED detailVars
  /\ UNCHANGED appVars
  /\ UNCHANGED <<clientVars, request_api_key, mwVars, ncalls>>

\* finally: request_api_key.reset(token)
MwFinally(t) ==
  /\ running = t
  /\ pc[t] = "mw_finally"
  /\ request_api_key' = ContextVarSet(request_api_key, t, token[t])
  /\ pc' = [pc EXCEPT ![t] = "done"]
  /\ running' = NoTask
  /\ UNCHANGED detailVars
  /\ UNCHANGED appVars
  /\ UNCHANGED <<clientVars, mwVars, outcome, ncalls, call>>

\* ------------------------------------------ client.py: InstantlyClient.request

\* the handler, a tool behind the MCP transport, calls
\* client.request(..., api_key=arg): the key is resolved, and without one
\* ValueError is raised to the handler
RequestResolve(t) ==
  /\ running = t
  /\ pc[t] = "app"
  /\ routed[t].target = ToTransport.target
  /\ ncalls[t] < MaxCalls
  /\ ncalls' = [ncalls EXCEPT ![t] = @ + 1]
  /\ \E arg \in ArgKeys :
       LET ctxkey == IF Truthy(arg) THEN None ELSE get_request_api_key(t)
           use == ResolveKey(arg, ctxkey, _api_key)
       IN IF KeyMissing(use)
          THEN /\ call' = [call EXCEPT ![t] =
                   [api_key |-> arg, ctx_key |-> ctxkey, use_api_key |-> use,
                    authorization |-> None, result |-> "ValueError",
                    message |-> MissingCredentialMessage]]
               /\ pc' = pc
          ELSE /\ call' = [call EXCEPT ![t] =
                   [api_key |-> arg, ctx_key |-> ctxkey, use_api_key |-> use,
                    authorization |-> None, result |-> "none", message |-> << >>]]
               /\ pc' = [pc EXCEPT ![t] = "req_send"]
  /\ UNCHANGED detailVars
  /\ UNCHANGED appVars
  /\ UNCHANGED <<clientVars, request_api_key, running, mwVars, outcome>>

\* headers = {"Authorization": ...}; await client.request(...): the call is
\* sent and the task waits for its end
RequestSend(t) ==
  /\ running = t
  /\ pc[t] = "req_send"
  /\ call' = [call EXCEPT ![t].authorization = AuthorizationHeader(call[t].use_api_key)]
  /\ pc' = [pc EXCEPT ![t] = "http_wait"]
  /\ running' = NoTask
  /\ UNCHANGED detailVars
  /\ UNCHANGED appVars
  /\ UNCHANGED <<clientVars, request_api_key, mwVars, outcome, ncalls>>

\* the outbound call ends and the task goes on: a response below 400, one of
\* 400 or more, httpx.TimeoutException, another httpx.RequestError
HttpComplete(t) ==
  /\ running = NoTask
  /\ pc[t] = "http_wait"
  /\ \E r \in {"value", "HTTPStatusError", "TimeoutError", "ConnectionError"} :
       call' = [call EXCEPT ![t].result = r]
  /\ pc' = [pc EXCEPT ![t] = "app"]
  /\ running' = t
  /\ UNCHANGED detailVars
  /\ UNCHANGED appVars
  /\ UNCHANGED <<clientVars, request_api_key, mwVars, outcome, ncalls>>

\* ----------------------------------------- client.py: calls and outcomes

LeadsList == <<"/","l","e","a","d","s","/","l","i","s","t">>
Leads == <<"/","l","e","a","d","s">>
Campaigns == <<"/","c","a","m","p","a","i","g","n","s">>
LeadLists == <<"/","l","e","a","d","-","l","i","s","t","s">>
Endpoints == {LeadsList, Leads, Campaigns, LeadLists}

JsonArgs ==
  { NoDict, Dict(<< >>), Dict(<< <<SearchKey, JStr(Empty)>> >>),
    Dict(<< <<SearchKey, JStr(<<"x">>)>> >>) }

\* the timeout argument: left out, 0.0, 30.0
TimeoutArgs == {NoFloat, Float(0), Float(30)}

PlainCall == Call("request", "GET", None, Campaigns, NoDict, NoFloat)
\* the plain call with the api_key argument given
KeyedCall == Call("request", "GET", ka, Campaigns, NoDict, NoFloat)
RichCalls ==
  {Call("request", "POST", None, e, j, tm) :
     e \in Endpoints, j \in JsonArgs, tm \in TimeoutArgs}
WrapperCalls ==
  {Call(via, "GET", None, Campaigns, NoDict, NoFloat) :
     via \in {"get", "post", "patch", "delete"}}
ClientCalls == {c : c \in RichCalls \cup WrapperCalls \cup {PlainCall, KeyedCall}}

Statuses == {200, 204, 400, 404, 500}
BadGateway == <<"B","a","d"," ","G","a","t","e","w","a","y">>
JsonTexts == {Dumps(v) : v \in JsonValues}
OtherTexts == {BadGateway, Empty, LongText}
Texts == {tx : tx \in JsonTexts \cup OtherTexts}
PlainText == Dumps(JDict(<< <<IdKey, JStr(<<"7">>)>> >>))

\* the values of the three rate limit headers; Absent when the header is not sent
Absent == <<"ABSENT">>
RemainingValues == {Absent, <<"4","2">>, <<"a","b","c">>}
LimitValues == {Absent, <<"1","0","0">>, <<"4",".","5">>}
ResetValues ==
  {Absent, <<"1","7","0","0","0","0","0","0","0","0">>, <<"s","o","o","n">>, <<"9","9","9","9","9","9","9","9","9","9","9","9","9","9">>, <<"1","0","0","0","0","0","0","0","0","0","0","0","0","0","0","0","0","0">>,
   <<"1","0","0","0","0","0","0","0","0","0","0","0","0","0","0","0","0","0","0","0","0">>}

HeaderList(rem, lim, res) ==
  (IF rem = Absent THEN << >> ELSE << <<RemainingName, rem>> >>)
    \o (IF lim = Absent THEN << >> ELSE << <<LimitName, lim>> >>)
    \o (IF res = Absent THEN << >> ELSE << <<ResetName, res>> >>)

HeaderLists ==
  {HeaderList(rem, lim, res) :
     rem \in RemainingValues, lim \in LimitValues, res \in ResetValues}

AllAttemptsFailed == <<"A","l","l"," ","c","o","n","n","e","c","t","i","o","n"," ","a","t","t","e","m","p","t","s"," ","f","a","i","l","e","d">>

PlainOutcomes ==
  { Responded(Response(200, PlainText, << >>)),
    Failed("ReadTimeout", Empty),
    Failed("ConnectError", AllAttemptsFailed) }

\* responses of every status and text, without rate limit headers
BodyOutcomes == {Responded(Response(st, tx, << >>)) : st \in Statuses, tx \in Texts}
\* a success and an error, with every list of rate limit headers
HeaderOutcomes ==
  {Responded(Response(st, PlainText, h)) : st \in {200, 404}, h \in HeaderLists}
FailedOutcomes ==
  {Failed(cls, IF cls \in TimeoutExceptions THEN Empty ELSE AllAttemptsFailed) :
     cls \in RequestErrors}
RichOutcomes ==
  {o : o \in BodyOutcomes \cup HeaderOutcomes \cup FailedOutcomes \cup PlainOutcomes}

\* every call of the bounds meets the plain outcomes, and the plain call
\* every outcome of the bounds
OutcomesFor(r) ==
  IF r.via = PlainCall.via /\ r.method = PlainCall.method
  THEN RichOutcomes
  ELSE PlainOutcomes

\* ------------------------- client.py: InstantlyClient.request, in detail

SuccessKey == <<"s","u","c","c","e","s","s">>
\* A mutant of the success marker: an empty dict
SuccessMarker_Empty == JDict(<< >>)

\* {"success": True}
SuccessMarker == JDict(<< <<SuccessKey, JTrue>> >>)

TimedOutAfter == <<"R","e","q","u","e","s","t"," ","t","i","m","e","d"," ","o","u","t"," ","a","f","t","e","r"," ">>
TimedOutAdvice == <<"s","."," ","F","o","r"," ","l","a","r","g","e"," ","d","a","t","a","s","e","t","s",","," ","t","r","y"," ","u","s","i","n","g"," ","p","a","g","i","n","a","t","i","o","n"," ","w","i","t","h"," ","s","m","a","l","l","e","r"," ","l","i","m","i","t","s",".">>
FailedToConnect == <<"F","a","i","l","e","d"," ","t","o"," ","c","o","n","n","e","c","t"," ","t","o"," ","I","n","s","t","a","n","t","l","y"," ","A","P","I",":"," ">>

\* the message of the TimeoutError, and of the ConnectionError
TimeoutMessage(request_timeout) ==
  JStr(TimedOutAfter \o FloatStr(request_timeout) \o TimedOutAdvice)
ConnectionMessage(e) == JStr(FailedToConnect \o e)

\* A mutant of the except clauses: RequestError is caught first
Except_RequestErrorFirst(cls) ==
  IF cls \in RequestErrors THEN "ConnectionError"
  ELSE IF cls \in TimeoutExceptions THEN "TimeoutError"
  ELSE cls

\* A mutant of the except clauses: the second one names httpx.HTTPError,
\* the base class of RequestError and of HTTPStatusError
Except_HTTPError(cls) ==
  IF cls \in TimeoutExceptions THEN "TimeoutError"
  ELSE IF cls \in RequestErrors \/ cls = "HTTPStatusError" THEN "ConnectionError"
  ELSE cls

\* the except clauses of request: the class of the exception that leaves it
\* when one of class cls is raised inside the try
Except(cls) ==
  IF cls \in TimeoutExceptions THEN "TimeoutError"
  ELSE IF cls \in RequestErrors THEN "ConnectionError"
  ELSE cls

\* A mutant: a failed attempt is made again, once
AfterRaise_Retry(attempts) == IF attempts < 2 THEN "ready" ELSE "done"

\* where request is after an exception left its try: it has ended
AfterRaise(attempts) == "done"

\* A mutant of Rejected: the ValueError is raised once the attempt was made
Rejected_AfterAttempt(r) ==
  [r EXCEPT !.pc = "done", !.result = "ValueError", !.attempts = 1]

\* if not use_api_key: raise ValueError(...) -- the call r ends there
Rejected(r) == [r EXCEPT !.pc = "done", !.result = "ValueError"]

\* lines 129-145: the key, the header and the timeout; without a key the
\* call ends with the ValueError before anything is sent
ReqStart(t, calls) ==
  /\ req[t].pc \in {"idle", "done"}
  /\ req[t].n < MaxRequests
  /\ \E c \in calls :
       LET use == ResolveKey(c.api_key, get_request_api_key(t), _api_key)
           search == HasSearch(c.json)
           r == [NoReq EXCEPT !.n = req[t].n + 1, !.via = c.via,
                              !.method = MethodFor(c.via, c.method),
                              !.api_key = c.api_key,
                              !.endpoint = c.endpoint, !.json = c.json,
                              !.timeout = c.timeout, !.use_api_key = use]
       IN req' = [req EXCEPT ![t] =
            IF KeyMissing(use)
            THEN Rejected(r)
            ELSE [r EXCEPT !.pc = "ready",
                           !.authorization = AuthorizationHeader(use),
                           !.has_search = search,
                           !.request_timeout = RequestTimeout(c.timeout, c.endpoint, search)]]
  /\ UNCHANGED <<clientVars, request_api_key, running, pc, mwVars, outcome, ncalls, call,
                 rate_limit, now, routed>>

\* lines 147-155: the one client.request(...) of the call is awaited
ReqSend(t) ==
  /\ req[t].pc = "ready"
  /\ req' = [req EXCEPT ![t].pc = "awaiting", ![t].attempts = @ + 1]
  /\ UNCHANGED <<clientVars, request_api_key, running, pc, mwVars, outcome, ncalls, call,
                 rate_limit, now, routed>>

\* the exception raised inside the try ("none" when request returns), for
\* outcome o of the await, u what _update_rate_limit did and body the parsed text
Raised(o, u, body) ==
  IF o.exc # "none" THEN o.exc
  ELSE IF u.raised # "none" THEN u.raised
  ELSE IF o.response.status >= 400 THEN "HTTPStatusError"
  ELSE IF o.response.status = 204 THEN "none"
  ELSE IF body.ok THEN "none"
  ELSE "JSONDecodeError"

\* the call's record when request has ended
Ended(r, o, body, raised, result, detail) ==
  [r EXCEPT
     !.pc = IF raised = "none" THEN "done" ELSE AfterRaise(r.attempts),
     !.response = o.response,
     !.result = result,
     !.value = IF raised # "none" THEN JNull
               ELSE IF o.response.status = 204 THEN SuccessMarker
               ELSE body.v,
     !.status = IF raised = "HTTPStatusError" THEN o.response.status ELSE 0,
     !.cause = IF result # raised THEN raised ELSE "none",
     !.message =
       CASE raised = "HTTPStatusError" -> detail
         [] result = "TimeoutError" -> TimeoutMessage(r.request_timeout)
         [] result = "ConnectionError" -> ConnectionMessage(o.text)
         [] OTHER -> JNull]

FinishRaised(t, o, u, body, raised) ==
  /\ now' = now + 1
  /\ rate_limit' = IF o.exc = "none" THEN u.rl ELSE rate_limit
  /\ req' = [req EXCEPT ![t] =
       Ended(req[t], o, body, raised, IF raised = "none" THEN "return" ELSE Except(raised),
             _parse_error(o.response.status, o.response.text))]

FinishWith(t, o, u, body) == FinishRaised(t, o, u, body, Raised(o, u, body))

\* lines 155-183: the await ends with outcome o, and request runs to its end
Finish(t, o) ==
  FinishWith(t, o, _update_rate_limit(rate_limit, o.response.headers, now + 1),
             Loads(o.response.text))

ReqFinish(t, outcomes) ==
  /\ req[t].pc = "awaiting"
  /\ \E o \in outcomes : Finish(t, o)
  /\ UNCHANGED <<clientVars, request_api_key, running, pc, mwVars, outcome, ncalls, call,
                 routed>>

\* ------------------------------------------------- tools: the input models

\* a pydantic model made from the arguments given: the declared fields
\* (fields: name and default) with the values given for them, a str value
\* stripped (str_strip_whitespace); arguments that name no field are not
\* kept (extra="ignore"), so the model has the declared fields and no other
FieldValue(v) == IF v.kind = "str" THEN JStr(Strip(v.s)) ELSE v
Model(fields, given) ==
  [i \in 1..Len(fields) |->
     <<fields[i][1], FieldValue(DictGet(given, fields[i][1], fields[i][2]))>>]

\* params.<name>: the value of a field, AttributeError for any other name
HasAttr(params, name) == DictHas(params, name)
Attr(params, name) == DictGet(params, name, JNull)

\* class VerifyEmailInput(BaseModel): email: str
VerifyEmailFields == << <<EmailKey, JNull>> >>

NameKey == <<"n","a","m","e">>
SubjectKey == <<"s","u","b","j","e","c","t">>
BodyKey == <<"b","o","d","y">>
EmailListKey == <<"e","m","a","i","l","_","l","i","s","t">>
\* class CreateCampaignInput(BaseModel): the fields the two steps look at
\* (extra="forbid": the arguments given below name declared fields only).
\* The optional fields for tracking, schedule, limits and sequences only
\* shape the payload and are left out.
CreateCampaignFields ==
  << <<NameKey, JNull>>, <<SubjectKey, JNull>>, <<BodyKey, JNull>>, <<EmailListKey, JNull>> >>

MaxWaitKey == <<"m","a","x","_","w","a","i","t","_","s","e","c","o","n","d","s">>
PollIntervalKey == <<"p","o","l","l","_","i","n","t","e","r","v","a","l","_","s","e","c","o","n","d","s">>
SkipPollingKey == <<"s","k","i","p","_","p","o","l","l","i","n","g">>

\* the arguments verify_email is called with
VerifyEmailArgs ==
  { << <<EmailKey, JStr(<<" ","a","@","b",".","c","o">>)>> >>,
    << <<EmailKey, JStr(<<"a","@","b",".","c","o">>)>>, <<MaxWaitKey, JInt(<<"0">>)>> >>,
    << <<EmailKey, JStr(<<"a","@","b",".","c","o">>)>>, <<SkipPollingKey, JTrue>> >>,
    << <<EmailKey, JStr(<<"a","@","b",".","c","o">>)>>, <<MaxWaitKey, JInt(<<"1","0">>)>>,
       <<PollIntervalKey, JInt(<<"1">>)>> >> }

\* the arguments create_campaign is called with: without email_list, with
\* an empty one, with one sender
CampaignBase ==
  << <<NameKey, JStr(<<"L","a","u","n","c","h">>)>>, <<SubjectKey, JStr(<<"H","e","l","l","o">>)>>, <<BodyKey, JStr(<<"H","i"," ","t","h","e","r","e">>)>> >>
CreateCampaignArgs ==
  { CampaignBase,
    CampaignBase \o << <<EmailListKey, JList>> >>,
    CampaignBase \o << <<EmailListKey, JListOf(<< JStr(<<"s","1","@","x",".","i","o">>) >>)>> >> }

\* ----------------------------------------------------- tools: their calls

EmailVerification == <<"/","e","m","a","i","l","-","v","e","r","i","f","i","c","a","t","i","o","n">>
Accounts == <<"/","a","c","c","o","u","n","t","s">>

\* what a tool keeps of a call of the client that has ended: sent tells
\* whether an HTTP request went out
Logged(r) ==
  [method |-> r.method, endpoint |-> r.endpoint, sent |-> r.attempts > 0,
   result |-> r.result]

\* the tool's record once the call r it awaited has ended
AfterCall(tl, r) == [tl EXCEPT !.calls = Append(@, Logged(r))]

\* the tool ends: an exception leaves it, or it returns a value
ToolRaise(tl, cls) == [tl EXCEPT !.pc = "done", !.result = cls]
ToolReturn(tl, v) == [tl EXCEPT !.pc = "done", !.result = "return", !.value = v]

\* a step of a tool that calls nothing
ToolFrame ==
  /\ UNCHANGED detailVars
  /\ UNCHANGED <<clientVars, request_api_key, running, pc, mwVars, outcome, ncalls, call,
                 routed>>

\* ------------------------------------------- tools/emails.py: verify_email

\* lines 176-180: client = get_client(); body = {"email": params.email};
\* result = await client.post("/email-verification", json=body)
VerifyEmailPost(params) ==
  Call("post", "POST", None, EmailVerification,
       Dict(<< <<EmailKey, Attr(params, EmailKey)>> >>), NoFloat)

VerifyEmailBegun(given, params) ==
  [NoTool EXCEPT !.name = "verify_email", !.pc = "post", !.given = given,
                 !.params = params]

VerifyEmailStart(t) ==
  /\ tool.pc = "idle"
  /\ \E given \in VerifyEmailArgs :
       /\ tool' = VerifyEmailBegun(given, Model(VerifyEmailFields, given))
       /\ ReqStart(t, {VerifyEmailPost(Model(VerifyEmailFields, given))})

\* line 183, max_wait = params.max_wait_seconds if ...: the first read of
\* params after the POST.  A model without the field raises AttributeError
\* there, and lines 184-227 do not run.
VerifyEmailAfterPost(tl, r) ==
  IF r.result # "return" THEN ToolRaise(tl, r.result)
  ELSE IF ~HasAttr(tl.params, MaxWaitKey) THEN ToolRaise(tl, "AttributeError")
  ELSE [tl EXCEPT !.pc = "line_184"]

\* the POST has ended: its exception leaves the tool, or the tool goes on
VerifyEmailResume(t) ==
  /\ tool.name = "verify_email"
  /\ tool.pc = "post"
  /\ req[t].pc = "done"
  /\ tool' = VerifyEmailAfterPost(AfterCall(tool, req[t]), req[t])
  /\ ToolFrame

\* -------------------------------------- tools/campaigns.py: create_campaign

\* lines 189-291, body: the name and, when given, the senders (the
\* sequences, tracking, schedule and limits are left out)
Payload(params) ==
  Dict(<< <<NameKey, Attr(params, NameKey)>> >>
         \o (IF JTruthy(Attr(params, EmailListKey))
             THEN << <<EmailListKey, Attr(params, EmailListKey)>> >>
             ELSE << >>))

AccountsGet == Call("get", "GET", None, Accounts, NoDict, NoFloat)
CampaignsPost(params) == Call("post", "POST", None, Campaigns, Payload(params), NoFloat)

CreateCampaignBegun(given, params, at) ==
  [NoTool EXCEPT !.name = "create_campaign", !.pc = at, !.given = given,
                 !.params = params]

\* if not params.email_list: ... await client.get("/accounts", ...); with
\* senders given the payload is built and posted at once
CreateCampaignCalls(t, given, params) ==
  IF ~JTruthy(Attr(params, EmailListKey))
  THEN /\ tool' = CreateCampaignBegun(given, params, "discover")
       /\ ReqStart(t, {AccountsGet})
  ELSE /\ tool' = CreateCampaignBegun(given, params, "create")
       /\ ReqStart(t, {CampaignsPost(params)})

CreateCampaignStart(t) ==
  /\ tool.pc = "idle"
  /\ \E given \in CreateCampaignArgs :
       CreateCampaignCalls(t, given, Model(CreateCampaignFields, given))

SuccessFalse == <<SuccessKey, JFalse>>
StageKey == <<"s","t","a","g","e">>
Count(s) == JInt(IntStr(Len(s)))

\* status == 1 and not setup_pending and warmup_status == 1
Eligible(acc) ==
  /\ DictGet(acc.items, StatusKey, JNull) = JInt(<<"1">>)
  /\ ~JTruthy(DictGet(acc.items, <<"s","e","t","u","p","_","p","e","n","d","i","n","g">>, JNull))
  /\ DictGet(acc.items, <<"w","a","r","m","u","p","_","s","t","a","t","u","s">>, JNull) = JInt(<<"1">>)

\* lines 107-179: the guidance returned for the accounts found (of its
\* entries: success, stage and the counts)
Guidance(accounts, eligible) ==
  IF accounts = << >>
  THEN JDict(<< SuccessFalse, <<StageKey, JStr(<<"n","o","_","a","c","c","o","u","n","t","s">>)>> >>)
  ELSE IF eligible = << >>
  THEN JDict(<< SuccessFalse, <<StageKey, JStr(<<"n","o","_","e","l","i","g","i","b","l","e","_","a","c","c","o","u","n","t","s">>)>>,
                <<<<"t","o","t","a","l","_","a","c","c","o","u","n","t","s">>, Count(accounts)>> >>)
  ELSE JDict(<< SuccessFalse, <<StageKey, JStr(<<"a","c","c","o","u","n","t","_","s","e","l","e","c","t","i","o","n","_","r","e","q","u","i","r","e","d">>)>>,
                <<<<"t","o","t","a","l","_","e","l","i","g","i","b","l","e","_","a","c","c","o","u","n","t","s">>, Count(eligible)>>,
                <<<<"t","o","t","a","l","_","a","c","c","o","u","n","t","s">>, Count(accounts)>> >>)

\* accounts = accounts_result.get("items", []) if isinstance(..., dict) else []
AccountsOf(result) ==
  IF result.kind = "dict" THEN DictGet(result.items, ItemsKey, JList) ELSE JList

\* the try block of lines 97-181 once the GET has ended with r: the
\* exception raised in it ("none" when it returns) and the value returned.
\* Iterating over items that are None raises TypeError.
DiscoveryOf(r, accounts) ==
  IF r.result # "return" THEN [raised |-> r.result, value |-> JNull]
  ELSE IF accounts.kind # "list" THEN [raised |-> "TypeError", value |-> JNull]
  ELSE [raised |-> "none",
        value |-> Guidance(accounts.items, SelectSeq(accounts.items, Eligible))]

Discovery(r) == DiscoveryOf(r, AccountsOf(r.value))

\* except Exception as e: pass -- every exception of the try block is
\* dropped, and the tool goes on to build and post the payload
Swallowed(cls) == cls # "none"

\* the GET has ended: the guidance is returned, or, when the discovery
\* raised, the campaign is posted
CreateCampaignDiscovered(t) ==
  /\ tool.name = "create_campaign"
  /\ tool.pc = "discover"
  /\ req[t].pc = "done"
  /\ IF Discovery(req[t]).raised = "none"
     THEN /\ tool' = ToolReturn(AfterCall(tool, req[t]), Discovery(req[t]).value)
          /\ ToolFrame
     ELSE IF Swallowed(Discovery(req[t]).raised)
     THEN /\ tool' = [AfterCall(tool, req[t]) EXCEPT !.pc = "create"]
          /\ ReqStart(t, {CampaignsPost(tool.params)})
     ELSE /\ tool' = ToolRaise(AfterCall(tool, req[t]), Discovery(req[t]).raised)
          /\ ToolFrame

\* lines 293-297: a dict result gets _success, _payload_used and _message
Created(result, json) ==
  IF result.kind = "dict"
  THEN JDict(result.items \o
         << <<<<"_","s","u","c","c","e","s","s">>, JTrue>>,
            <<<<"_","p","a","y","l","o","a","d","_","u","s","e","d">>, JDict(json.items)>>,
            <<<<"_","m","e","s","s","a","g","e">>, JStr(<<"C","a","m","p","a","i","g","n"," ","c","r","e","a","t","e","d"," ","s","u","c","c","e","s","s","f","u","l","l","y"," ","w","i","t","h"," ","A","P","I"," ","v","2"," ","c","o","m","p","l","i","a","n","t"," ","p","a","y","l","o","a","d">>)>> >>)
  ELSE result

CreateCampaignAfterPost(tl, r) ==
  IF r.result # "return" THEN ToolRaise(tl, r.result)
  ELSE ToolReturn(tl, Created(r.value, r.json))

\* the POST has ended
CreateCampaignCreated(t) ==
  /\ tool.name = "create_campaign"
  /\ tool.pc = "create"
  /\ req[t].pc = "done"
  /\ tool' = CreateCampaignAfterPost(AfterCall(tool, req[t]), req[t])
  /\ ToolFrame

\* ---------------------------------------------- tools: what the API answers

NotJson == Responded(Response(200, BadGateway, << >>))
ServerError == Responded(Response(500, BadGateway, << >>))
ReadTimedOut == Failed("ReadTimeout", Empty)

AccountsOutcomes ==
  { o : o \in { Responded(Response(200, Dumps(v), << >>)) : v \in AccountPages \cup {JList} }
               \cup { Responded(Response(204, Empty, << >>)), NotJson, ServerError,
                      ReadTimedOut } }
CampaignsOutcomes ==
  { Responded(Response(200, PlainText, << >>)),
    Responded(Response(200, Dumps(JStr(<<"t","e","x","t">>)), << >>)),
    ServerError,
    Failed("ConnectError", AllAttemptsFailed) }
VerificationOutcomes ==
  { Responded(Response(200, Dumps(Verification(Pending)), << >>)),
    Responded(Response(200, Dumps(Verification(Verified)), << >>)),
    ServerError,
    ReadTimedOut }

ToolOutcomes(r) ==
  IF r.endpoint = Accounts THEN AccountsOutcomes
  ELSE IF r.endpoint = Campaigns THEN CampaignsOutcomes
  ELSE VerificationOutcomes

\* ------------------------------------------------------- specifications

Step(t) ==
  \/ MwType(t)
  \/ MwMatch(t)
  \/ MwHeaders(t)
  \/ MwSet(t)
  \/ RequestResolve(t)
  \/ RequestSend(t)
  \/ HttpComplete(t)
  \/ Cancel(t)
  \/ AppReturn(t)
  \/ AppRaise(t)
  \/ MwFinally(t)

Next ==
  \/ \E v \in SetKeys : set_api_key(v)
  \/ \E t \in Tasks : Receive(t, SmallScopes)
  \/ \E t \in Tasks : Step(t)

\* two requests in flight, the client configured in every way
Spec == Init /\ [][Next]_vars

InitMw ==
  /\ environ = None
  /\ configured = None
  /\ _api_key = __post_init__(configured, environ)
  /\ InitTasks

NextMw ==
  \/ Receive("A", RichScopes)
  \/ MwType("A")
  \/ MwMatch("A")
  \/ MwHeaders("A")
  \/ MwSet("A")
  \/ AppReturn("A")
  \/ AppRaise("A")
  \/ MwFinally("A")

\* one request, with every path and header list of the bounds
SpecMw == InitMw /\ [][NextMw]_vars

InitClient ==
  /\ environ \in {None, Empty}
  /\ configured \in CtorKeys
  /\ _api_key = __post_init__(configured, environ)
  /\ InitTasks

NextClient ==
  \/ ReqStart("A", ClientCalls) /\ UNCHANGED tool
  \/ ReqSend("A") /\ UNCHANGED tool
  \/ ReqFinish("A", OutcomesFor(req["A"])) /\ UNCHANGED tool

\* one caller, its calls of request one after the other, with every
\* argument and every outcome of the bounds
SpecClient == InitClient /\ [][NextClient]_vars

InitTools ==
  /\ environ = None
  /\ configured \in CtorKeys
  /\ _api_key = __post_init__(configured, environ)
  /\ InitTasks

NextTools ==
  \/ VerifyEmailStart("A")
  \/ VerifyEmailResume("A")
  \/ CreateCampaignStart("A")
  \/ CreateCampaignDiscovered("A")
  \/ CreateCampaignCreated("A")
  \/ ReqSend("A") /\ UNCHANGED tool
  \/ ReqFinish("A", ToolOutcomes(req["A"])) /\ UNCHANGED tool

\* one call of a tool, with every argument and every answer of the bounds
SpecTools == InitTools /\ [][NextTools]_vars

\* ------------------------------------------------------------ claims

\* the task has been handed to the downstream handler by the middleware's try
\* block and the reset has not run yet
InFlight(t) ==
  Handled(inScope[t]) /\ pc[t] \in {"app", "req_send", "http_wait", "mw_finally"}

\* the middleware is past the path match of a handled request
PastMatch(t) ==
  Handled(inScope[t]) /\ pc[t] \in {"mw_headers", "mw_set", "app", "mw_finally", "done"}

\* the middleware is past the header fallback of a handled request
PastHeaders(t) ==
  Handled(inScope[t]) /\ pc[t] \in {"mw_set", "app", "mw_finally", "done"}

\* client.request has just resolved its key: nothing ran since line 129
JustResolved(t) ==
  ncalls[t] > 0 /\ (pc[t] = "req_send" \/ (pc[t] = "app" /\ call[t].result = "ValueError"))

\* the middleware took the key of task t from the path
PathKeyFound(t) == match[t].matched /\ match[t].g1 \notin {Sse, Messages}

\* C1: while two requests are in flight, every read of the slot made for one of
\* them (get_request_api_key, and the read of client.request) gives the key the
\* middleware resolved for that request, and never the other request's key.
C1_Isolation ==
  \A t \in Tasks :
    InFlight(t) =>
      /\ get_request_api_key(t) = api_key[t]
      /\ (ncalls[t] > 0 /\ ~Truthy(call[t].api_key)) => call[t].ctx_key = api_key[t]
      /\ \A u \in Tasks \ {t} :
           (InFlight(u) /\ api_key[u] # api_key[t]) =>
             /\ get_request_api_key(t) # api_key[u]
             /\ (ncalls[t] > 0 /\ ~Truthy(call[t].api_key)) => call[t].ctx_key # api_key[u]

C1_Witness ==
  /\ pc["A"] = "http_wait" /\ pc["B"] = "http_wait"
  /\ api_key["A"] = k1 /\ api_key["B"] = k2
  /\ call["A"].ctx_key = k1 /\ call["B"].ctx_key = k2

\* the first non-empty of the four sources, in the order of precedence
FirstSource(srcs) ==
  IF \E i \in 1..Len(srcs) : Truthy(srcs[i])
  THEN srcs[CHOOSE i \in 1..Len(srcs) :
              Truthy(srcs[i]) /\ \A j \in 1..(i - 1) : ~Truthy(srcs[j])]
  ELSE None

Sources(t) == <<call[t].api_key, get_request_api_key(t), configured, environ>>

\* C2: client.request uses the first non-empty of: the api_key argument, the
\* request-context key, the key configured by the constructor or set_api_key,
\* the environment variable read at construction.
C2_Precedence ==
  \A t \in Tasks :
    (JustResolved(t) /\ Truthy(FirstSource(Sources(t)))) =>
      /\ call[t].result # "ValueError"
      /\ call[t].use_api_key = FirstSource(Sources(t))

\* C3: when the middleware's call for a handled request has returned or
\* propagated, however the downstream handler ended, the slot holds what it
\* held before the middleware set it, and a read gives no key.
C3_SlotRestored ==
  \A t \in Tasks :
    (Handled(inScope[t]) /\ pc[t] = "done") =>
      /\ request_api_key[t] = token[t]
      /\ request_api_key[t] = Missing
      /\ get_request_api_key(t) = None

C3_Witness ==
  /\ pc["A"] = "done" /\ outcome["A"] = "raised" /\ Truthy(api_key["A"])
  /\ pc["B"] = "done" /\ outcome["B"] = "cancelled" /\ Truthy(api_key["B"])
  /\ request_api_key["A"] = Missing /\ request_api_key["B"] = Missing

SeqRange(s) == {s[i] : i \in 1..Len(s)}

\* C4: with no non-empty key in any of the four sources, client.request raises
\* ValueError, and its message names the URL path, the bare Authorization
\* header, the x-instantly-api-key header and the environment variable.
C4_MissingCredential ==
  \A t \in Tasks :
    (JustResolved(t) /\ ~Truthy(FirstSource(Sources(t)))) =>
      /\ call[t].result = "ValueError"
      /\ { "  - URL path: /mcp/YOUR_API_KEY",
           "  - Header: Authorization: YOUR_API_KEY",
           "  - Header: x-instantly-api-key: YOUR_API_KEY",
           "  - Environment: INSTANTLY_API_KEY" } \subseteq SeqRange(call[t].message)

C4_Witness ==
  \E t \in Tasks :
    /\ pc[t] = "app" /\ call[t].result = "ValueError"
    /\ _api_key = Empty /\ environ = Empty /\ configured = None

\* C5: the Authorization header of an outbound call is "Bearer " and the key
\* resolved for the call; a call made for an inbound request whose key the
\* middleware extracted, with no api_key argument, carries that key, whatever
\* key the client is configured with.
C5_BearerHeader ==
  \A t \in Tasks :
    call[t].authorization # None =>
      /\ call[t].authorization = <<"B","e","a","r","e","r"," ">> \o call[t].use_api_key
      /\ (Handled(inScope[t]) /\ Truthy(api_key[t]) /\ ~Truthy(call[t].api_key)) =>
           call[t].authorization = <<"B","e","a","r","e","r"," ">> \o api_key[t]

C5_Witness ==
  \E t \in Tasks :
    /\ pc[t] = "http_wait"
    /\ api_key[t] = k1 /\ call[t].api_key = None
    /\ _api_key = ks
    /\ call[t].authorization = <<"B","e","a","r","e","r"," ","k","1">>

\* the segment after "/mcp/" ends before the next "/" or with the path
SegEnd(path) ==
  IF \E i \in 6..Len(path) : path[i] = "/"
  THEN (CHOOSE i \in 6..Len(path) : path[i] = "/" /\ \A j \in 6..(i - 1) : path[j] # "/") - 1
  ELSE Len(path)

SegOf(path) == SubSeq(path, 6, SegEnd(path))
RestOf(path) == SubSeq(path, SegEnd(path) + 1, Len(path))

\* the path is "/mcp/<seg>" or "/mcp/<seg>/<rest>" with a non-empty segment
HasSegment(path) == StartsWith(path, McpSlash) /\ SegOf(path) # Empty

\* C6: for a path "/mcp/<seg>" or "/mcp/<seg>/<rest>" whose segment is not
\* reserved, the middleware resolves <seg> as the key and hands the path
\* "/mcp" plus the rest downstream.
C6_PathKeyRewrite ==
  \A t \in Tasks :
    (PastMatch(t) /\ HasSegment(inScope[t].path)
       /\ SegOf(inScope[t].path) \notin {Sse, Messages}) =>
      /\ api_key[t] = SegOf(inScope[t].path)
      /\ scope[t].path = McpMount \o RestOf(inScope[t].path)

\* C7: a path whose segment after "/mcp/" is "sse" or "messages" gives no key,
\* and the request goes downstream with its scope as it came; the key, if any,
\* is the one of the headers.
C7_ReservedNames ==
  \A t \in Tasks :
    (PastMatch(t) /\ HasSegment(inScope[t].path)
       /\ SegOf(inScope[t].path) \in {Sse, Messages}) =>
      /\ scope[t] = inScope[t]
      /\ pc[t] = "mw_headers" => api_key[t] = None
      /\ pc[t] # "mw_headers" => api_key[t] = extract_api_key_from_headers(inScope[t].headers)

C7_Witness ==
  /\ pc["A"] = "app"
  /\ inScope["A"].path = McpSlash \o Messages \o <<"/">> \o k1
  /\ scope["A"].path = McpSlash \o Messages \o <<"/">> \o k1
  /\ api_key["A"] = None

\* C8: when the middleware took a key from the path, neither path nor raw_path
\* of the scope handed downstream contains that key.
C8_KeyInvisible ==
  \A t \in Tasks :
    (InFlight(t) /\ PathKeyFound(t)) =>
      /\ ~Contains(scope[t].path, match[t].g1)
      /\ ~Contains(scope[t].raw_path, match[t].g1)

\* the value of the header called name: that of its last entry in the list
HeaderPresent(hs, name) == \E i \in 1..Len(hs) : Lower(hs[i][1]) = name
HeaderValue(hs, name) ==
  IF HeaderPresent(hs, name)
  THEN hs[SetMax({i \in 1..Len(hs) : Lower(hs[i][1]) = name})][2]
  ELSE None

\* the key the claim gives for a header list
HeaderKey(hs) ==
  LET x == HeaderValue(hs, XApiKeyName)
      a == HeaderValue(hs, AuthorizationName)
  IN IF Truthy(x) THEN x
     ELSE IF ~Truthy(a) THEN None
     ELSE IF Len(a) >= 7 /\ Lower(SubSeq(a, 1, 7)) = <<"b","e","a","r","e","r"," ">>
          THEN SubSeq(a, 8, Len(a))
          ELSE a

\* C9: when the headers give the key, a non-empty x-instantly-api-key wins over
\* Authorization; otherwise the key is the Authorization value without a
\* leading "Bearer " in any case of letters; with neither header there is no
\* key.  "Authorization: Bearer k1" and "Authorization: k1" both give k1.
C9_HeaderKey ==
  \A t \in Tasks :
    (PastHeaders(t) /\ ~PathKeyFound(t)) =>
      /\ api_key[t] = HeaderKey(inScope[t].headers)
      /\ inScope[t].headers \in { << <<AuthorizationName, k1>> >>,
                                  << <<AuthorizationName, BearerPrefix \o k1>> >> }
           => api_key[t] = k1
      /\ inScope[t].headers = << >> => api_key[t] = None

C9_Witness ==
  /\ pc["A"] = "app"
  /\ inScope["A"].path = McpMount
  /\ inScope["A"].headers = << <<AuthorizationName, BearerPrefix \o k1>>, <<XApiKeyName, k2>> >>
  /\ api_key["A"] = k2

\* C10: the key the middleware found in the path is the key stored in the slot
\* for the request, whatever the headers; the headers give the stored key only
\* when the path gave none.
C10_PathBeforeHeaders ==
  \A t \in Tasks :
    InFlight(t) =>
      IF PathKeyFound(t)
      THEN get_request_api_key(t) = match[t].g1
      ELSE get_request_api_key(t) = extract_api_key_from_headers(inScope[t].headers)

C10_Witness ==
  /\ pc["A"] = "app"
  /\ inScope["A"].path = McpSlash \o k1
  /\ inScope["A"].headers = << <<XApiKeyName, k2>>, <<AuthorizationName, k2>> >>
  /\ request_api_key["A"] = k1

\* ------------------------------------------------ claims on the client

\* lines 141-145 of the call ran: it has its header and its timeout
Prepared(t) == req[t].authorization # None

\* the json argument has a "search" entry whose value is a non-empty string
SearchGiven(t) ==
  /\ req[t].json.some
  /\ \E i \in 1..Len(req[t].json.items) :
       /\ req[t].json.items[i][1] = <<"s","e","a","r","c","h">>
       /\ req[t].json.items[i][2].kind = "str"
       /\ req[t].json.items[i][2].s # << >>

\* an endpoint of the leads-list shape: it has "/leads" and "list" in it
LeadsListShape(e) == Contains(e, <<"/","l","e","a","d","s">>) /\ Contains(e, <<"l","i","s","t">>)

\* C11: with no timeout argument, a call whose json has a truthy "search" gets
\* the 120 s timeout whatever its endpoint; otherwise a call to an endpoint of
\* the leads-list shape, "/leads/list" being one, gets 90 s; every other call
\* gets 60 s.
C11_TimeoutTiers ==
  /\ LeadsListShape(<<"/","l","e","a","d","s","/","l","i","s","t">>)
  /\ \A t \in Tasks :
       (Prepared(t) /\ ~req[t].timeout.some) =>
         req[t].request_timeout =
           IF SearchGiven(t) THEN 120
           ELSE IF LeadsListShape(req[t].endpoint) THEN 90
           ELSE 60

C11_Witness ==
  \E t \in Tasks :
    /\ req[t].pc = "awaiting" /\ ~req[t].timeout.some
    /\ SearchGiven(t) /\ req[t].endpoint = <<"/","l","e","a","d","s","/","l","i","s","t">>
    /\ req[t].request_timeout = 120

\* C12: a call given a timeout argument uses that timeout, whatever its
\* endpoint and json.
C12_ExplicitTimeout ==
  \A t \in Tasks :
    (Prepared(t) /\ req[t].timeout.some) => req[t].request_timeout = req[t].timeout.v

\* a response came back for the call and the tracker's update let it through
Answered(t) ==
  req[t].response.status # 0 /\ req[t].result \notin {"OSError", "OverflowError"}

IsObject(data) == data.ok /\ data.v.kind = "dict"
HasKey(data, key) == IsObject(data) /\ DictHas(data.v.items, key)
ValueOf(data, key) == DictGet(data.v.items, key, JNull)
NestedMessage(error) == error.kind = "dict" /\ DictHas(error.items, <<"m","e","s","s","a","g","e">>)

\* "HTTP <status>: <the first 200 characters of the body>"
RawFallback(status, text) ==
  [kind |-> "str", items |-> << >>,
   s |-> <<"H","T","T","P"," ">> \o IntStr(status) \o <<":"," ">>
           \o [i \in 1..(IF Len(text) > 200 THEN 200 ELSE Len(text)) |-> text[i]]]

\* the message by the order error.message, message, detail, raw
PriorityMessage(data, raw) ==
  IF HasKey(data, <<"e","r","r","o","r">>) /\ NestedMessage(ValueOf(data, <<"e","r","r","o","r">>))
  THEN DictGet(ValueOf(data, <<"e","r","r","o","r">>).items, <<"m","e","s","s","a","g","e">>, JNull)
  ELSE IF HasKey(data, <<"m","e","s","s","a","g","e">>) THEN ValueOf(data, <<"m","e","s","s","a","g","e">>)
  ELSE IF HasKey(data, <<"d","e","t","a","i","l">>) THEN ValueOf(data, <<"d","e","t","a","i","l">>)
  ELSE raw

\* the message by the order error (its message, or else its str), message,
\* detail, raw
ErrorFirstMessage(data, raw) ==
  IF HasKey(data, <<"e","r","r","o","r">>)
  THEN IF NestedMessage(ValueOf(data, <<"e","r","r","o","r">>))
       THEN DictGet(ValueOf(data, <<"e","r","r","o","r">>).items, <<"m","e","s","s","a","g","e">>, JNull)
       ELSE [kind |-> "str", items |-> << >>, s |-> Str(ValueOf(data, <<"e","r","r","o","r">>))]
  ELSE IF HasKey(data, <<"m","e","s","s","a","g","e">>) THEN ValueOf(data, <<"m","e","s","s","a","g","e">>)
  ELSE IF HasKey(data, <<"d","e","t","a","i","l">>) THEN ValueOf(data, <<"d","e","t","a","i","l">>)
  ELSE raw

NoneRecognised(data) ==
  ~(HasKey(data, <<"e","r","r","o","r">>) \/ HasKey(data, <<"m","e","s","s","a","g","e">>) \/ HasKey(data, <<"d","e","t","a","i","l">>))

TransportFailed(t) ==
  req[t].attempts > 0 /\ req[t].result # "none" /\ req[t].response.status = 0

\* C16: when the outbound call times out request raises TimeoutError, not
\* ConnectionError, and the message names the timeout the call was made with;
\* when it fails in any other way of httpx.RequestError request raises
\* ConnectionError, from that exception and with its text in the message.
C16_TransportErrors ==
  \A t \in Tasks :
    TransportFailed(t) =>
      /\ req[t].cause \in {"ConnectTimeout", "ReadTimeout", "ConnectError", "ReadError"}
      /\ req[t].cause \in {"ConnectTimeout", "ReadTimeout"} =>
           /\ req[t].result = "TimeoutError"
           /\ req[t].message.s =
                <<"R","e","q","u","e","s","t"," ","t","i","m","e","d"," ","o","u","t"," ","a","f","t","e","r"," ">> \o IntStr(req[t].request_timeout) \o <<".","0">>
                  \o <<"s","."," ","F","o","r"," ","l","a","r","g","e"," ","d","a","t","a","s","e","t","s",","," ","t","r","y"," ","u","s","i","n","g"," ","p","a","g","i","n","a","t","i","o","n"," ","w","i","t","h"," ","s","m","a","l","l","e","r"," ","l","i","m","i","t","s",".">>
      /\ req[t].cause \in {"ConnectError", "ReadError"} =>
           /\ req[t].result = "ConnectionError"
           /\ req[t].message.s =
                <<"F","a","i","l","e","d"," ","t","o"," ","c","o","n","n","e","c","t"," ","t","o"," ","I","n","s","t","a","n","t","l","y"," ","A","P","I",":"," ","A","l","l"," ","c","o","n","n","e","c","t","i","o","n"," ","a","t","t","e","m","p","t","s"," ","f","a","i","l","e","d">>

C16_Witness ==
  \E t \in Tasks :
    /\ req[t].cause = "ReadTimeout" /\ req[t].result = "TimeoutError"
    /\ req[t].timeout.some /\ req[t].request_timeout = 30
    /\ SubSeq(req[t].message.s, 1, 30) = <<"R","e","q","u","e","s","t"," ","t","i","m","e","d"," ","o","u","t"," ","a","f","t","e","r"," ","3","0",".","0","s",".">>

\* C17: a call of request, or of get, post, patch or delete, makes at most one
\* outbound attempt, and once the attempt failed the call has ended with the
\* error: no further attempt follows.
C17_NoRetry ==
  \A t \in Tasks :
    /\ req[t].attempts <= 1
    /\ req[t].pc = "awaiting" => req[t].attempts = 1
    /\ req[t].result # "none" => req[t].pc = "done"

C17_Witness ==
  \E t \in Tasks :
    /\ req[t].via = "delete" /\ req[t].method = "DELETE"
    /\ req[t].result = "ConnectionError"
    /\ req[t].attempts = 1 /\ req[t].pc = "done"

\* the response of the call has the header, with value v
Carries(t, name, v) ==
  \E i \in 1..Len(req[t].response.headers) : req[t].response.headers[i] = <<name, v>>

CarriesNone(h) ==
  \A i \in 1..Len(h) :
    h[i][1] \notin {<<"x","-","r","a","t","e","l","i","m","i","t","-","r","e","m","a","i","n","i","n","g">>, <<"x","-","r","a","t","e","l","i","m","i","t","-","l","i","m","i","t">>, <<"x","-","r","a","t","e","l","i","m","i","t","-","r","e","s","e","t">>}

\* a count: decimal digits, without a leading zero
WellFormedCount(v) ==
  /\ v # << >>
  /\ \A i \in 1..Len(v) : v[i] \in {"0","1","2","3","4","5","6","7","8","9"}
  /\ Len(v) > 1 => v[1] # "0"

\* epoch seconds of an instant of the years 1970 to 9999
WellFormedEpoch(v) == WellFormedCount(v) /\ Len(v) <= 11

\* C18: after a response, of a success or an error status, each of the headers
\* x-ratelimit-remaining, x-ratelimit-limit and x-ratelimit-reset that it
\* carries with a well-formed value has overwritten remaining, limit and
\* reset_at of the tracker.
C18_TrackerUpdated ==
  \A t \in Tasks :
    req[t].response.status # 0 =>
      \A v \in RemainingValues \cup LimitValues \cup ResetValues :
        /\ (Carries(t, <<"x","-","r","a","t","e","l","i","m","i","t","-","r","e","m","a","i","n","i","n","g">>, v) /\ WellFormedCount(v))
             => rate_limit.remaining = v
        /\ (Carries(t, <<"x","-","r","a","t","e","l","i","m","i","t","-","l","i","m","i","t">>, v) /\ WellFormedCount(v))
             => rate_limit.limit = v
        /\ (Carries(t, <<"x","-","r","a","t","e","l","i","m","i","t","-","r","e","s","e","t">>, v) /\ WellFormedEpoch(v))
             => rate_limit.reset_at = v

\* C19: whatever the rate limit headers of a response are, request ends as the
\* status and the body alone make it end: with HTTPStatusError for a status
\* >= 400, and by returning for a lower status with a JSON body.
C19_MalformedIgnored ==
  \A t \in Tasks :
    req[t].response.status # 0 =>
      /\ req[t].response.status >= 400 => req[t].result = "HTTPStatusError"
      /\ (req[t].response.status < 400 /\ req[t].response.text \in JsonTexts)
           => req[t].result = "return"

\* C20: a step in which a response without any of the three rate limit
\* headers is taken in leaves the tracker as it was, every field of it.
C20_TrackerFrame ==
  [][\A t \in Tasks :
       (req[t].pc = "awaiting" /\ req'[t].response.status # 0
          /\ CarriesNone(req'[t].response.headers))
         => rate_limit' = rate_limit]_vars

\* ------------------------------------ claims on the order and the dispatcher

\* the steps of the middleware for task t, as the changes of one step show them
Rewrites(t) == pc[t] # "idle" /\ scope'[t].path # scope[t].path
SetsContext(t) == request_api_key[t] = Missing /\ request_api_key'[t] # Missing
Delegates(t) == routed[t] = NoRoute /\ routed'[t] # NoRoute
ResetsContext(t) == request_api_key[t] # Missing /\ request_api_key'[t] = Missing

\* C22, as stated: within one handled request the steps run in the order
\* context set, path rewrite, delegation, context reset -- so a step that
\* rewrites the path finds the context set
C22_SetThenRewrite ==
  [][\A t \in Tasks : Rewrites(t) => request_api_key[t] # Missing]_vars

\* C22, amended: within one handled request the steps run in the order path
\* rewrite, context set, delegation, context reset: the path is rewritten
\* while the context is still unset and nothing is delegated; the downstream
\* handler is called in the step that sets the context, with the path
\* already in its final form; the context is reset only once that call ended
C22_RewriteSetDelegateReset ==
  [][\A t \in Tasks :
       /\ Rewrites(t) =>
            /\ request_api_key[t] = Missing /\ request_api_key'[t] = Missing
            /\ routed[t] = NoRoute /\ routed'[t] = NoRoute
       /\ (Handled(inScope[t]) /\ Delegates(t)) =>
            /\ SetsContext(t)
            /\ request_api_key'[t] = api_key[t]
            /\ scope'[t] = scope[t]
            /\ outcome'[t] = "none"
       /\ (Handled(inScope[t]) /\ SetsContext(t)) => Delegates(t)
       /\ routed[t] # NoRoute => scope'[t] = scope[t]
       /\ ResetsContext(t) =>
            /\ outcome[t] # "none"
            /\ routed[t] # NoRoute
            /\ pc'[t] = "done"]_vars

\* a request whose path carried a key went through all four steps
C22_Witness ==
  /\ pc["A"] = "done"
  /\ Handled(inScope["A"])
  /\ scope["A"].path # inScope["A"].path
  /\ routed["A"] # NoRoute
  /\ outcome["A"] # "none"
  /\ request_api_key["A"] = Missing

\* C23: a request of an unhandled kind (scope type other than http and
\* websocket) is delegated untouched: downstream gets the scope the server
\* gave, path and headers as they came, and the context slot is never set
\* and never reset -- it stays unset, and no token is taken
C23_UnhandledUntouched ==
  \A t \in Tasks :
    (pc[t] # "idle" /\ inScope[t].type \notin {"http", "websocket"}) =>
      /\ scope[t] = inScope[t]
      /\ request_api_key[t] = Missing
      /\ token[t] = Missing
      /\ api_key[t] = None
      /\ match[t] = NoMatch
      /\ pc[t] \notin {"mw_match", "mw_headers", "mw_set", "mw_finally"}
      /\ pc[t] # "mw_type" => routed[t] = ToTransport

\* a request of another kind, with a key in its path and in a header, was
\* delegated and has ended
C23_Witness ==
  /\ pc["A"] = "done"
  /\ inScope["A"].type = "lifespan"
  /\ inScope["A"].path = McpSlash \o k1
  /\ inScope["A"].headers # << >>
  /\ routed["A"] # NoRoute
  /\ outcome["A"] = "returned"

\* the path begins with the mount point
UnderMount(p) == Len(p) >= 4 /\ SubSeq(p, 1, 4) = <<"/","m","c","p">>

\* C24: the dispatcher sorts every http request, by the path the middleware
\* hands it, into exactly one of three classes: "/" and "/health" are
\* answered by the health handler with status 200 and the health payload;
\* a path beginning with "/mcp" is forwarded to the MCP transport and the
\* dispatcher sends nothing; any other path is answered with status 404 and
\* a JSON body with error "Not found" and a hint, and is not forwarded
C24_ThreeClasses ==
  \A t \in Tasks :
    (routed[t] # NoRoute /\ scope[t].type = "http") =>
      IF scope[t].path \in {<<"/">>, <<"/","h","e","a","l","t","h">>}
      THEN /\ routed[t].target = "health_app"
           /\ routed[t].status = 200
           /\ routed[t].body = HealthPayload
      ELSE IF UnderMount(scope[t].path)
      THEN /\ routed[t].target = "fastmcp_asgi"
           /\ routed[t].status = 0
      ELSE /\ routed[t].target = "router"
           /\ routed[t].status = 404
           /\ routed[t].body.kind = "dict"
           /\ Len(routed[t].body.items) = 2
           /\ DictGet(routed[t].body.items, <<"e","r","r","o","r">>, JNull) = JStr(<<"N","o","t"," ","f","o","u","n","d">>)
           /\ DictHas(routed[t].body.items, <<"h","i","n","t">>)

\* a path that only begins like the health path got the 404
C24_Witness ==
  /\ pc["A"] = "done"
  /\ scope["A"].type = "http"
  /\ scope["A"].path = Health \o <<"x">>
  /\ routed["A"].status = 404

\* the other two classes: the health payload, and a path forwarded after
\* the middleware rewrote it
C24_HealthReached ==
  /\ scope["A"].path = Health /\ routed["A"].status = 200
C24_ForwardReached ==
  /\ inScope["A"].path = McpSlash \o k1 \o <<"/","x">>
  /\ scope["A"].path = McpMount \o <<"/","x">>
  /\ routed["A"] = ToTransport

\* C30, as stated: the rewrite is idempotent -- the rule applied to the path
\* handed downstream extracts no key and leaves the path as it is
C30_Idempotent ==
  \A t \in Tasks :
    PastMatch(t) =>
      /\ RewriteRule(scope[t].path).api_key = None
      /\ RewriteRule(scope[t].path).path = scope[t].path

\* C30, amended: the rule applied to the path handed downstream extracts no
\* key and changes nothing, except when the middleware took a key from the
\* path and what followed the key begins with a non-empty segment that is
\* not reserved: then the path handed downstream is "/mcp/<seg>..." and the
\* rule takes <seg> from it as a key
C30_IdempotentUnlessSegment ==
  \A t \in Tasks :
    PastMatch(t) =>
      IF /\ PathKeyFound(t)
         /\ HasSegment(scope[t].path)
         /\ SegOf(scope[t].path) \notin {Sse, Messages}
      THEN /\ RewriteRule(scope[t].path).api_key = SegOf(scope[t].path)
           /\ RewriteRule(scope[t].path).path = McpMount \o RestOf(scope[t].path)
      ELSE /\ RewriteRule(scope[t].path).api_key = None
           /\ RewriteRule(scope[t].path).path = scope[t].path

\* "/mcp/k1/x" was handed downstream as "/mcp/x", from which the rule takes
\* the key "x"
C30_Witness ==
  /\ pc["A"] = "done"
  /\ inScope["A"].path = McpSlash \o k1 \o <<"/","x">>
  /\ scope["A"].path = McpSlash \o <<"x">>
  /\ api_key["A"] = k1
  /\ RewriteRule(scope["A"].path).api_key = <<"x">>

\* "/mcp/k1/sse" was handed downstream as "/mcp/sse", which the rule leaves
C30_ReservedReached ==
  /\ pc["A"] = "done"
  /\ inScope["A"].path = McpSlash \o k1 \o <<"/">> \o Sse
  /\ RewriteRule(scope["A"].path).path = McpSlash \o Sse

\* ---------------------------------------- claims on the failures of request

\* C25: a call of request that has ended either returned a value or failed
\* with one of the four kinds -- ValueError for the missing credential,
\* HTTPStatusError, TimeoutError, ConnectionError -- and with no other
\* exception: what goes wrong while the rate limit headers or an error body
\* are parsed is absorbed
C25_FourKinds ==
  \A t \in Tasks :
    req[t].pc = "done" =>
      /\ req[t].result \in {"return", "ValueError", "HTTPStatusError",
                            "TimeoutError", "ConnectionError"}
      /\ req[t].result = "ValueError" => req[t].use_api_key \in {None, Empty}

\* C28: the step in which a call of request fails for the missing
\* credential issues no outbound HTTP call -- the call has made no attempt
\* and has no response -- and leaves every field of the rate limit tracker
\* as it was
C28_MissingCredentialFrame ==
  [][\A t \in Tasks :
       (req'[t] # req[t] /\ req'[t].result = "ValueError") =>
         /\ req'[t].attempts = 0
         /\ req'[t].response.status = 0
         /\ req'[t].pc = "done"
         /\ rate_limit' = rate_limit]_vars

\* a call without a key failed after an earlier call, made with a key of
\* its own, had filled the tracker; the tracker still holds those values
C28_Witness ==
  /\ req["A"].n = 2
  /\ req["A"].result = "ValueError"
  /\ req["A"].attempts = 0
  /\ req["A"].use_api_key = Empty
  /\ rate_limit.remaining = <<"4","2">>

\* C29: the HTTPStatusError that request raises for a response of status
\* >= 400 leaves request as it was raised, with the status of the response:
\* no except clause turns it into a TimeoutError or a ConnectionError, which
\* come from calls that got no response only
C29_StatusErrorUnchanged ==
  \A t \in Tasks :
    /\ (req[t].pc = "done" /\ req[t].response.status >= 400) =>
         /\ req[t].result \notin {"TimeoutError", "ConnectionError", "return"}
         /\ Answered(t) =>
              /\ req[t].result = "HTTPStatusError"
              /\ req[t].cause = "none"
              /\ req[t].status = req[t].response.status
              /\ req[t].message.kind = "str"
    /\ req[t].result \in {"TimeoutError", "ConnectionError"} =>
         req[t].response.status = 0

\* a 500 whose body is no JSON left request as an HTTPStatusError
C29_Witness ==
  /\ req["A"].pc = "done"
  /\ req["A"].response.status = 500
  /\ req["A"].response.text = BadGateway
  /\ req["A"].result = "HTTPStatusError"
  /\ req["A"].status = 500

\* ------------------------------------------- the race on the tracker

\* two tasks call request on the one client; the await of line 149 is the
\* only place where a call gives way, so what follows a response -- the
\* tracker update and the rest of request -- runs in one step
RaceCalls == {PlainCall}

RaceHeaders ==
  { << >>,
    << <<RemainingName, <<"4","2">>>> >>,
    << <<RemainingName, <<"7">>>>, <<LimitName, <<"1","0","0">>>>,
       <<ResetName, <<"1","7","0","0","0","0","0","0","0","0">>>> >>,
    << <<LimitName, <<"5","0">>>> >>,
    << <<RemainingName, <<"a","b","c">>>>, <<LimitName, <<"9">>>> >> }

RaceOutcomes ==
  { o : o \in { Responded(Response(200, PlainText, h)) : h \in RaceHeaders }
               \cup { Responded(Response(404, PlainText, << <<RemainingName, <<"3">>>> >>)),
                      Failed("ReadTimeout", Empty) } }

InitRace ==
  /\ environ = None
  /\ configured = kc
  /\ _api_key = __post_init__(configured, environ)
  /\ InitTasks

NextRace ==
  \/ \E t \in Tasks : ReqStart(t, RaceCalls) /\ UNCHANGED tool
  \/ \E t \in Tasks : ReqSend(t) /\ UNCHANGED tool
  \/ \E t \in Tasks : ReqFinish(t, RaceOutcomes) /\ UNCHANGED tool

\* two callers of the one client, their calls in flight at once and their
\* responses coming back in any order
SpecRace == InitRace /\ [][NextRace]_vars

\* the response of the call of task t comes back in this step
Completes(t) ==
  /\ req[t].pc = "awaiting"
  /\ req'[t].pc = "done"
  /\ req'[t].response.status # 0

\* the response that came back for t has the header, with value v
Carried(t, name, v) ==
  \E i \in 1..Len(req'[t].response.headers) : req'[t].response.headers[i] = <<name, v>>

\* C21: last write wins.  Whenever a field of the tracker changes, the step
\* is the one in which the response of some call comes back, and the field's
\* new value is the one that very response carries (the time of that step
\* for last_updated); the other calls do nothing in the step.  So the values
\* of the tracker are written in the order in which the responses come
\* back, and a response that came back earlier writes nothing over the
\* values of one that came back later.
C21_LastWriteWins ==
  [][rate_limit' # rate_limit =>
       \E t \in Tasks :
         /\ Completes(t)
         /\ \A u \in Tasks \ {t} : req'[u] = req[u]
         /\ rate_limit'.remaining # rate_limit.remaining =>
              Carried(t, <<"x","-","r","a","t","e","l","i","m","i","t","-","r","e","m","a","i","n","i","n","g">>, rate_limit'.remaining)
         /\ rate_limit'.limit # rate_limit.limit =>
              Carried(t, <<"x","-","r","a","t","e","l","i","m","i","t","-","l","i","m","i","t">>, rate_limit'.limit)
         /\ rate_limit'.reset_at # rate_limit.reset_at =>
              Carried(t, <<"x","-","r","a","t","e","l","i","m","i","t","-","r","e","s","e","t">>, rate_limit'.reset_at)
         /\ rate_limit'.last_updated # rate_limit.last_updated =>
              rate_limit'.last_updated = IntStr(now')]_vars

\* B's call was sent after A's and its response came back first; A's
\* response, the later one, has overwritten remaining, while the limit that
\* only B's response carried is still B's
C21_Witness ==
  /\ req["A"].n = 1 /\ req["B"].n = 1
  /\ req["A"].pc = "done" /\ req["B"].pc = "done"
  /\ req["B"].response.headers # << >>
  /\ req["B"].response.headers[1] = <<RemainingName, <<"7">>>>
  /\ req["A"].response.headers = << <<RemainingName, <<"4","2">>>> >>
  /\ rate_limit.remaining = <<"4","2">>
  /\ rate_limit.limit = <<"1","0","0">>
  /\ rate_limit.last_updated = <<"2">>

\* -------------------------------------------------- claims on the tools

\* the initial POST of verify_email returned, with this verification_status
PostReturned ==
  /\ tool.name = "verify_email"
  /\ tool.calls # << >>
  /\ tool.calls[1].result = "return"
InitialStatus == DictGet(req["A"].value.items, <<"v","e","r","i","f","i","c","a","t","i","o","n","_","s","t","a","t","u","s">>, JStr(Empty)).s
SkipGiven == DictGet(tool.given, <<"s","k","i","p","_","p","o","l","l","i","n","g">>, JFalse) = JTrue

\* C26: verify_email always terminates by returning a result: once its
\* initial POST has returned, the tool ends with a returned value -- the
\* first verified or invalid poll result, or the initial result when the
\* wait is over -- and with skip_polling=true or an initial status that is
\* not pending it returns the initial result after that one call
C26_PollingTerminates ==
  (PostReturned /\ tool.pc # "post") =>
    /\ tool.pc = "done"
    /\ tool.result = "return"
    /\ (SkipGiven \/ InitialStatus # <<"p","e","n","d","i","n","g">>) =>
         /\ Len(tool.calls) = 1
         /\ tool.value = req["A"].value

\* senders were given to create_campaign
SendersGiven ==
  \E i \in 1..Len(tool.given) :
    tool.given[i][1] = <<"e","m","a","i","l","_","l","i","s","t">> /\ tool.given[i][2].items # << >>

\* the HTTP requests with the method to the endpoint that went out for the
\* tool so far, the one in progress included
SentTo(method, endpoint) ==
  Cardinality({i \in 1..Len(tool.calls) :
                 /\ tool.calls[i].sent
                 /\ tool.calls[i].method = method /\ tool.calls[i].endpoint = endpoint})
    + (IF /\ tool.pc \in {"discover", "create"}
          /\ req["A"].attempts > 0
          /\ req["A"].method = method /\ req["A"].endpoint = endpoint
       THEN 1 ELSE 0)

\* C27: create_campaign takes two steps (with a key configured).  Called
\* without senders it only looks up the accounts with GET /accounts, never
\* issues a POST to /campaigns, and returns guidance with success false;
\* called with senders it issues exactly one POST to /campaigns and looks
\* up no accounts
C27_TwoStep ==
  (tool.name = "create_campaign" /\ _api_key = <<"k","c">>) =>
    IF SendersGiven
    THEN /\ SentTo("GET", <<"/","a","c","c","o","u","n","t","s">>) = 0
         /\ SentTo("POST", <<"/","c","a","m","p","a","i","g","n","s">>) <= 1
         /\ tool.pc = "done" => SentTo("POST", <<"/","c","a","m","p","a","i","g","n","s">>) = 1
    ELSE /\ SentTo("POST", <<"/","c","a","m","p","a","i","g","n","s">>) = 0
         /\ tool.pc = "done" =>
              /\ SentTo("GET", <<"/","a","c","c","o","u","n","t","s">>) = 1
              /\ tool.result = "return"
              /\ DictGet(tool.value.items, <<"s","u","c","c","e","s","s">>, JNull) = JFalse

\* what does hold of the two steps: senders given, no account is looked up
\* and one POST goes out; none given, one GET goes out, and a call that
\* issued no POST returned the guidance
C27_StepsAsCoded ==
  (tool.name = "create_campaign" /\ _api_key = <<"k","c">>) =>
    IF SendersGiven
    THEN /\ SentTo("GET", <<"/","a","c","c","o","u","n","t","s">>) = 0
         /\ tool.pc = "done" => SentTo("POST", <<"/","c","a","m","p","a","i","g","n","s">>) = 1
    ELSE /\ tool.pc = "done" => SentTo("GET", <<"/","a","c","c","o","u","n","t","s">>) = 1
         /\ (tool.pc = "done" /\ SentTo("POST", <<"/","c","a","m","p","a","i","g","n","s">>) = 0) =>
              /\ tool.result = "return"
              /\ DictGet(tool.value.items, <<"s","u","c","c","e","s","s">>, JNull) = JFalse

====

